---- MODULE Spec2Model ----
(***************************************************************************)
(* Transcription orchestration pipeline of moonshine-whisper.              *)
(*                                                                         *)
(* Modelled from src/main.go: main (510-640), warmup (642-661),            *)
(* transcribeFile (994-1076), applyVADChunked (1080-1113),                 *)
(* recognizeChunk (1115-1136) and compressionRatio (1138-1147).            *)
(*                                                                         *)
(* The recognition engines and the VAD engine are opaque native            *)
(* libraries: what they return (text, speech segments) is a                *)
(* nondeterministic choice from bounded sets; what the Go code does with   *)
(* the locks, the engine calls and the results is modelled step by step.   *)
(*                                                                         *)
(* Processes: 0 is the main goroutine (startup, warmup, serving), 1..      *)
(* NumReqs are request goroutines, each running transcribeFile once (the   *)
(* handlers call it with the normalised language and the override).        *)
(*                                                                         *)
(* Workloads over the same actions: Spec runs NumReqs concurrent requests  *)
(* on short audio, SpecReq and SpecGates one request over every input      *)
(* case (three engine texts and one), SpecTexts one request that passes    *)
(* the gates over every engine text, SpecPair and SpecLocks two concurrent *)
(* requests of several chunks each, SpecTmp two requests that go through   *)
(* ffmpeg, SpecFair two requests under fair scheduling. SpecLife follows   *)
(* the process from start to exit (listener failure, termination signal,   *)
(* shutdown wait, release of the engines). SpecWav runs loadWav            *)
(* (1149-1188) alone, byte by byte, on small files; SpecConfig runs        *)
(* loadConfig (480-508) alone, character by character, on small            *)
(* environments.                                                           *)
(*                                                                         *)
(* A text is known by its padding, its character and byte lengths and the  *)
(* length of its zlib compression; a file by what is in it.                *)
(***************************************************************************)
EXTENDS Integers, Sequences, FiniteSets, TLC

\* ---------------------------------------------------------------- bounds
\* number of request goroutines
NumReqs == 2
\* most segments the VAD engine emits for one request
MaxSegs == 2
\* most payload bytes of a WAV file handed to loadWav
MaxWavBytes == 5

\* -------------------------------------------------------- program constants
windowSize == 512
SampleHz == 16000
MaxChunkSeconds == 25
maxChunkSamples == MaxChunkSeconds * SampleHz
DefaultNumThreads == 4
DefaultVADMinDurationS == 10
DefaultMaxAudioDurationS == 300
MsDivisor == 16
\* compressionRatio: texts under MinScoredLen bytes score 0; a chunk text is
\* dropped when its score exceeds RatioLimitNum / RatioLimitDen (2.4)
MinScoredLen == 10
RatioLimitNum == 24
RatioLimitDen == 10
StatusOK == 200
StatusBadRequest == 400
StatusUnprocessableEntity == 422
StatusServiceUnavailable == 503
\* the deadline main gives srv.Shutdown, in seconds
ShutdownTimeoutS == 10
\* loadWav: bytes of the header it reads, and the divisor of a 16-bit sample
HeaderLen == 44
FullScale == 32768

\* -------------------------------------------------------------- universes
Reqs == 1..NumReqs
Procs == 0..NumReqs
Engines == {"EN", "RU"}
Locks == {"EN", "RU", "VAD"}

\* language codes a caller may send; only the exact code "ru" is special
Langs == {"ru", "en", "de", ""}
\* vad override of the request: unset (nil pointer), true, false
Overrides == {"unset", "true", "false"}

\* lengths (in samples) of the speech segments the VAD engine may emit:
\* 150000 + 250000 is exactly maxChunkSamples, 250000 + 250000 exceeds it,
\* 450000 alone exceeds it
SegLens == {150000, 250000, 450000}

\* A text, by what the pipeline measures of it: pad bytes of white space
\* around it, chars characters and len UTF-8 bytes between the white space,
\* and zlen, the bytes zlib makes of those len bytes.
Text(pad, chars, len, zlen) == [pad |-> pad, chars |-> chars, len |-> len, zlen |-> zlen]

\* the empty string and a single space
EmptyText == Text(0, 0, 0, 8)
Space == Text(1, 0, 0, 8)

\* what a recognition engine may return for a buffer: nothing; 9 ASCII
\* characters; 6 Cyrillic characters (12 bytes); padded prose; a text whose
\* ratio is exactly 2.4; a decoder loop (a 3-byte token 50 times)
EngineTexts ==
    {EmptyText, Text(0, 9, 9, 17), Text(0, 6, 12, 21), Text(1, 99, 99, 85),
     Text(0, 120, 120, 50), Text(0, 150, 150, 14)}

\* the texts of the concurrent workload: nothing, padded prose, a loop
ConcTexts == {EmptyText, Text(1, 99, 99, 85), Text(0, 150, 150, 14)}

\* the texts of the two-request workload: padded prose, a loop
PairTexts == {Text(1, 99, 99, 85), Text(0, 150, 150, 14)}

VARIABLES
    mainpc,        \* position of the main goroutine
    loadEN,        \* EN loader goroutine: "running" | "done"
    loadRU,        \* RU loader goroutine: "absent" | "running" | "done"
    recognizerEN,  \* TRUE iff the global handle is non-nil
    recognizerRU,  \* TRUE iff the global handle is non-nil
    vadDetector,   \* TRUE iff the global handle is non-nil
    cfg,           \* [VADMinDurationS, MaxAudioDurationS] in seconds
    mu,            \* mu[l]: set of processes holding lock l (muEN, muRU, muVAD)
    inflight,      \* inflight[e]: processes with a stream submitted to engine e
    vad,           \* streaming state of the VAD engine
    arrivals,      \* the requests the HTTP layer will hand to transcribeFile
    req,           \* req[r]: the request's arguments and its audio file
    vocab,         \* the texts the engines return for the workload's audio
    names,         \* names[r]: the uuid prefixes uuid.New may give request r
    pc,            \* pc[r]: position of request r inside transcribeFile
    useVAD,        \* local of transcribeFile
    chunks,        \* local: chunks still to transcribe (applyVADChunked's too)
    current,       \* local of applyVADChunked: the chunk being accumulated
    ci,            \* index of the chunk the decode loop is at
    parts,         \* local of transcribeFile: surviving chunk texts
    text,          \* local: text returned by recognizeChunk for chunk ci
    speechMs,      \* local of transcribeFile
    resp,          \* resp[r]: what transcribeFile returned (response, status)
    disk,          \* disk[p]: what is in the file at path p
    cleanup,       \* local of transcribeFile: the path to remove on return
    ffmpegRuns,    \* history: the requests ffmpeg was run for
    writer,        \* history: writer[p]: the request whose ffmpeg last wrote p
    heard,         \* history: per chunk, what the decode loop got and made of it
    drained,       \* history: segments r popped from the VAD engine, in order
    decoded,       \* history: engine and buffer of every decode call r made
    locked,        \* history: locks r has ever acquired
    released,      \* the engines main has deleted on its way out
    waited,        \* seconds srv.Shutdown has been waiting
    shutErr,       \* what srv.Shutdown returned: "" (not yet), "nil", "deadline"
    wavFile,       \* the file handed to loadWav
    wavResult,     \* what loadWav returned for it
    environ,       \* the environment variables of the process
    loaded         \* what loadConfig returned for them

vars == <<mainpc, loadEN, loadRU, recognizerEN, recognizerRU, vadDetector, cfg,
          mu, inflight, vad, arrivals, req, vocab, pc, useVAD, chunks, current, ci,
          parts, text, speechMs, resp, disk, cleanup, ffmpegRuns, heard, drained,
          decoded, locked, released, waited, shutErr, wavFile, wavResult,
          names, writer, environ, loaded>>

globals == <<recognizerEN, recognizerRU, vadDetector, cfg>>
startup == <<mainpc, loadEN, loadRU>>
workload == <<arrivals, req, vocab, names>>
history == <<heard, drained, decoded, locked>>
normalized == <<cleanup, ffmpegRuns, writer>>
lifecycle == <<released, waited, shutErr>>
wavio == <<wavFile, wavResult>>
confio == <<environ, loaded>>

\* --------------------------------------------------------------- helpers
RECURSIVE SumLen(_)
SumLen(s) == IF s = <<>> THEN 0 ELSE Head(s).len + SumLen(Tail(s))

RECURSIVE SumLens(_)
SumLens(s) == IF s = <<>> THEN 0 ELSE Head(s) + SumLens(Tail(s))

RECURSIVE Flatten(_)
Flatten(cs) == IF cs = <<>> THEN <<>> ELSE Head(cs).segs \o Flatten(Tail(cs))

Last(s) == s[Len(s)]

\* a chunk is a buffer of len samples; segs are the VAD segments it was
\* built from (none for the whole decoded buffer)
EmptyChunk == [len |-> 0, segs |-> <<>>]

\* (variant) the single chunk is cut at the chunk limit
WholeBufferCapped(n) ==
    [len |-> IF n > maxChunkSamples THEN maxChunkSamples ELSE n, segs |-> <<>>]

WholeBuffer(n) == [len |-> n, segs |-> <<>>]

NoResp == [done |-> FALSE, Text |-> <<>>, SpeechMs |-> 0, Error |-> "", Status |-> 0]
Response(txt, sp, err, st) ==
    [done |-> TRUE, Text |-> txt, SpeechMs |-> sp, Error |-> err, Status |-> st]


\* ------------------------------------------------------ requests and audio
\* strings.ToLower on filepath.Ext of the audio path (.wav, .WAV, .mp3)
ToLower(ext) == IF ext = ".WAV" THEN ".wav" ELSE ext

\* An audio file, described by what the external decoder and loadWav make of
\* it: whether ffmpeg converts it, whether loadWav parses it, the sample rate
\* in its header and the number of samples loadWav returns.
Audio(ext, ffmpegOk, wavOk, rate, n) ==
    [ext |-> ext, ffmpegOk |-> ffmpegOk, wavOk |-> wavOk, rate |-> rate, n |-> n]

\* sample counts: empty, just below / at / above the VAD minimum (10 s),
\* long enough for several chunks, at and just above the ceiling (300 s)
SampleCounts == {0, 159999, 160000, 600000, 4800000, 4800001}

AudioCases ==
    {Audio(".mp3", FALSE, TRUE, SampleHz, 160000),
     Audio(".wav", TRUE, FALSE, SampleHz, 160000),
     Audio(".wav", TRUE, TRUE, 8000, 160000),
     Audio(".wav", TRUE, TRUE, 8000, 4800001),
     Audio(".WAV", TRUE, TRUE, SampleHz, 600000)}
    \cup {Audio(e, TRUE, TRUE, SampleHz, n) : e \in {".wav", ".mp3"}, n \in SampleCounts}

Request(lang, override, audio) == [lang |-> lang, override |-> override, audio |-> audio]

\* every request of the sequential workload
AllInputs == {Request(l, o, a) : l \in Langs, o \in Overrides, a \in AudioCases}

\* the requests of the concurrent workload: 10 s of canonical audio in
\* either language, no override (segmented whenever the VAD engine is loaded)
ConcInputs ==
    {Request(l, "unset", Audio(".wav", TRUE, TRUE, SampleHz, 160000)) :
        l \in {"en", "ru"}}

\* the requests of the two-request workload: 37.5 s of canonical audio in
\* either language, no override; long enough for two chunks
PairInputs ==
    {Request(l, "unset", Audio(".wav", TRUE, TRUE, SampleHz, 600000)) :
        l \in {"en", "ru"}}

\* ------------------------------------------------------------------ files
\* uuid.New().String()[:8]: the first 8 hexadecimal digits (32 random bits)
\* of a random UUID; as many values as there are requests are told apart
Uuids == Reqs

\* the paths a request touches: audioPath, the file the caller names, and
\* /tmp/moonshine_<u>.wav for a uuid prefix u, the output of ffmpeg (main.go
\* 1000)
InPath(r) == <<"in", r>>
TmpPath(u) == <<"tmp", u>>
Paths == {InPath(r) : r \in Reqs} \cup {TmpPath(u) : u \in Uuids}

\* ------------------------------------------------------------------ loadWav
\* A WAV file, by what loadWav reads of it: whether os.Open succeeds, hlen,
\* the bytes the file has for the 44-byte header, the header bytes 22-23
\* (chan), 24-27 (rate) and 34-35 (bits), whether io.ReadAll succeeds, and
\* data, the bytes after the header.
WavFile(open, hlen, chan, rate, bits, readOk, data) ==
    [open |-> open, hlen |-> hlen, chan |-> chan, rate |-> rate, bits |-> bits,
     readOk |-> readOk, data |-> data]

\* no file has been handed to loadWav; loadWav has not returned
NoWav == WavFile(FALSE, 0, <<0, 0>>, <<0, 0, 0, 0>>, <<0, 0>>, FALSE, <<>>)
NotLoaded == [samples |-> <<>>, rate |-> 0, err |-> "not called"]

\* the byte values told apart
Bytes == {0, 1, 127, 128, 255}

\* every payload of at most MaxWavBytes bytes
Payloads == UNION {[1..n -> Bytes] : n \in 0..MaxWavBytes}

\* header fields, little-endian: 1, 2, 6 and 257 channels; 8, 16, 24, 32
\* and 272 bits; 16000 and 44100 Hz
ChanFields == {<<1, 0>>, <<2, 0>>, <<6, 0>>, <<1, 1>>}
BitsFields == {<<8, 0>>, <<16, 0>>, <<24, 0>>, <<32, 0>>, <<16, 1>>}
RateFields == {<<128, 62, 0, 0>>, <<68, 172, 0, 0>>}

\* the files loadWav is run on: one that cannot be opened; files shorter
\* than the header; every combination of depth and channel count with a
\* short payload; 16-bit mono and stereo files with every payload; a file
\* whose payload cannot be read
WavFiles ==
    {WavFile(FALSE, 0, <<1, 0>>, <<128, 62, 0, 0>>, <<16, 0>>, TRUE, <<>>)}
    \cup {WavFile(TRUE, h, <<1, 0>>, <<128, 62, 0, 0>>, <<16, 0>>, TRUE, <<>>) :
            h \in {0, HeaderLen - 1}}
    \cup {WavFile(TRUE, HeaderLen, c, <<128, 62, 0, 0>>, b, TRUE, d) :
            c \in ChanFields, b \in BitsFields, d \in {<<>>, <<1, 0, 255, 127>>}}
    \cup {WavFile(TRUE, HeaderLen, c, r, <<16, 0>>, TRUE, d) :
            c \in {<<1, 0>>, <<2, 0>>}, r \in RateFields, d \in Payloads}
    \cup {WavFile(TRUE, HeaderLen, <<1, 0>>, <<128, 62, 0, 0>>, <<16, 0>>, FALSE,
                  <<1, 0>>)}

\* binary.LittleEndian.Uint16 and Uint32
LE16(b) == b[1] + 256 * b[2]
LE32(b) == b[1] + 256 * b[2] + 65536 * b[3] + 16777216 * b[4]

\* (variant) the 16 bits are taken as unsigned
Int16AsUint16(u) == u

\* int16(u) of a uint16: two's complement
Int16(u) == IF u >= 32768 THEN u - 65536 ELSE u

\* (variant) the two bytes of a sample are read high byte first
Sample16BigEndian(lo, hi) == Int16(LE16(<<hi, lo>>))

\* int16(binary.LittleEndian.Uint16(data[i:i+2]))
Sample16(lo, hi) == Int16(LE16(<<lo, hi>>))

\* A float32 sample, as the exact fraction <<numerator, denominator>>. The
\* conversions and divisions of loadWav are exact in float32: a 16-bit
\* integer, the sum of two, its half and a quotient by a power of two all
\* fit the 24-bit significand.
Frac(n, d) == <<n, d>>

\* main.go 1172-1176: one sample per two bytes; a last odd byte is left out
RECURSIVE MonoSamples(_)
MonoSamples(d) ==
    IF Len(d) < 2 THEN <<>>
    ELSE <<Frac(Sample16(d[1], d[2]), FullScale)>> \o MonoSamples(SubSeq(d, 3, Len(d)))

\* main.go 1177-1182: one sample per four bytes, (l + r) / 2 / 32768; an
\* incomplete last frame is left out
RECURSIVE StereoSamples(_)
StereoSamples(d) ==
    IF Len(d) < 4 THEN <<>>
    ELSE <<Frac(Sample16(d[1], d[2]) + Sample16(d[3], d[4]), 2 * FullScale)>>
            \o StereoSamples(SubSeq(d, 5, Len(d)))

\* what loadWav returns: samples, sample rate, error ("" is nil)
Loaded(samples, rate, err) == [samples |-> samples, rate |-> rate, err |-> err]

\* (variant) any mono file is read as 16-bit
IsMonoAnyDepth(bits, ch) == ch = 1

\* case bitsPerSample == 16 && numChannels == 1
IsMono16(bits, ch) == bits = 16 /\ ch = 1

\* case bitsPerSample == 16 && numChannels == 2
IsStereo16(bits, ch) == bits = 16 /\ ch = 2

\* loadWav (main.go 1149-1188)
loadWav(f) ==
    IF ~f.open THEN Loaded(<<>>, 0, "open")
    ELSE IF f.hlen < HeaderLen THEN Loaded(<<>>, 0, "read header")
    ELSE IF ~f.readOk THEN Loaded(<<>>, 0, "read")
    ELSE LET sampleRate == LE32(f.rate)
             numChannels == LE16(f.chan)
             bitsPerSample == LE16(f.bits)
         IN  IF IsMono16(bitsPerSample, numChannels)
             THEN Loaded(MonoSamples(f.data), sampleRate, "")
             ELSE IF IsStereo16(bitsPerSample, numChannels)
             THEN Loaded(StereoSamples(f.data), sampleRate, "")
             ELSE Loaded(<<>>, 0, "unsupported WAV")


\* cleanup == "" (main.go 996)
NoPath == <<"", 0>>

\* os.Remove(path)
Removed(d, path) == IF path = NoPath THEN d ELSE [d EXCEPT ![path] = "absent"]

\* --------------------------------------------------------------- loadConfig
\* A string is the sequence of its characters. The characters of a decimal
\* number and their values
Digits == {"0", "1", "2", "3", "4", "5", "6", "7", "8", "9"}

DigitVal(c) ==
    CASE c = "0" -> 0 [] c = "1" -> 1 [] c = "2" -> 2 [] c = "3" -> 3
      [] c = "4" -> 4 [] c = "5" -> 5 [] c = "6" -> 6 [] c = "7" -> 7
      [] c = "8" -> 8 [] c = "9" -> 9

\* the digits without their leading zeros (none left: the number is 0)
RECURSIVE StripZeros(_)
StripZeros(str) ==
    IF str # <<>> /\ Head(str) = "0" THEN StripZeros(Tail(str)) ELSE str

\* the value of a string of digits
RECURSIVE Decimal(_)
Decimal(str) ==
    IF str = <<>> THEN 0
    ELSE Decimal(SubSeq(str, 1, Len(str) - 1)) * 10 + DigitVal(Last(str))

\* the decimal digits of a natural number
RECURSIVE ToDigits(_)
ToDigits(k) ==
    IF k = 0 THEN <<>>
    ELSE Append(ToDigits(k \div 10),
                CHOOSE c \in Digits : DigitVal(c) = k % 10)

\* a is a greater number than b, for digit strings without leading zeros
RECURSIVE DigitsGreater(_, _)
DigitsGreater(a, b) ==
    IF Len(a) # Len(b) THEN Len(a) > Len(b)
    ELSE IF a = <<>> THEN FALSE
    ELSE IF Head(a) # Head(b) THEN DigitVal(Head(a)) > DigitVal(Head(b))
    ELSE DigitsGreater(Tail(a), Tail(b))

\* An int, of any size, as its sign and the digits of its magnitude
IntOf(neg, digits) == [neg |-> neg /\ digits # <<>>, digits |-> digits]

\* strconv.Atoi: an optional sign and then digits, nothing else; a value
\* that does not fit the 64-bit int (above 2^63 - 1, below -2^63) is a
\* range error and the nearest limit
Atoi(str) ==
    LET signed == str # <<>> /\ Head(str) \in {"+", "-"}
        neg == str # <<>> /\ Head(str) = "-"
        body == IF signed THEN Tail(str) ELSE str
        mag == StripZeros(body)
        MaxInt == <<"9", "2", "2", "3", "3", "7", "2", "0", "3", "6", "8", "5",
                    "4", "7", "7", "5", "8", "0", "7">>
        MinIntAbs == <<"9", "2", "2", "3", "3", "7", "2", "0", "3", "6", "8", "5",
                       "4", "7", "7", "5", "8", "0", "8">>
        limit == IF neg THEN MinIntAbs ELSE MaxInt
    IN  IF body = <<>> \/ \E i \in 1..Len(body) : body[i] \notin Digits
        THEN [err |-> "syntax", n |-> IntOf(FALSE, <<>>)]
        ELSE IF DigitsGreater(mag, limit) THEN [err |-> "range", n |-> IntOf(neg, limit)]
        ELSE [err |-> "", n |-> IntOf(neg, mag)]

\* A float64 by what a comparison with zero can tell: not a number (kind
\* "nan"), an infinity ("inf"), or the finite value (+/-) digits * 10^exp
\* (no digits: zero)
Float(kind, neg, digits, exp) ==
    [kind |-> kind, neg |-> neg, digits |-> digits,
     exp |-> IF digits = <<>> THEN 0 ELSE exp]

\* strconv.ParseFloat(str, 64) for decimal input: "inf" and "infinity" with
\* an optional sign and "nan" without one, in any case; otherwise an
\* optional sign, digits with at most one point among them and at least one
\* digit, and an optional exponent (e, an optional sign, digits). Anything
\* else is a syntax error. A magnitude of 10^310 or more is a range error
\* and an infinity; one below 10^-324 becomes zero without an error (the
\* values between these and the largest and smallest float64 are taken as
\* finite; no such value is among the environments)
ParseFloat(str) ==
    LET Lower(c) ==
            CASE c = "I" -> "i" [] c = "N" -> "n" [] c = "F" -> "f"
              [] c = "A" -> "a" [] c = "T" -> "t" [] c = "Y" -> "y"
              [] c = "E" -> "e" [] OTHER -> c
        LowerCase(x) == [i \in 1..Len(x) |-> Lower(x[i])]
        IndexOf(x, cs) ==
            IF \E i \in 1..Len(x) : x[i] \in cs
            THEN CHOOSE i \in 1..Len(x) :
                    x[i] \in cs /\ \A j \in 1..(i - 1) : x[j] \notin cs
            ELSE 0
        signed == str # <<>> /\ Head(str) \in {"+", "-"}
        neg == str # <<>> /\ Head(str) = "-"
        body == IF signed THEN Tail(str) ELSE str
        epos == IndexOf(body, {"e", "E"})
        mant == IF epos = 0 THEN body ELSE SubSeq(body, 1, epos - 1)
        expo == IF epos = 0 THEN <<>> ELSE SubSeq(body, epos + 1, Len(body))
        eneg == expo # <<>> /\ Head(expo) = "-"
        edig == IF expo # <<>> /\ Head(expo) \in {"+", "-"} THEN Tail(expo) ELSE expo
        dot == IndexOf(mant, {"."})
        int == IF dot = 0 THEN mant ELSE SubSeq(mant, 1, dot - 1)
        frac == IF dot = 0 THEN <<>> ELSE SubSeq(mant, dot + 1, Len(mant))
        wellFormed ==
            /\ \A i \in 1..Len(int) : int[i] \in Digits
            /\ \A i \in 1..Len(frac) : frac[i] \in Digits
            /\ Len(int) + Len(frac) >= 1
            /\ epos = 0 \/ (edig # <<>> /\ \A i \in 1..Len(edig) : edig[i] \in Digits)
        digits == StripZeros(int \o frac)
        e == IF epos = 0 THEN 0 ELSE IF eneg THEN 0 - Decimal(edig) ELSE Decimal(edig)
        order == Len(digits) + e - Len(frac)
    IN  IF LowerCase(body) \in {<<"i", "n", "f">>,
                               <<"i", "n", "f", "i", "n", "i", "t", "y">>}
        THEN [err |-> "", f |-> Float("inf", neg, <<>>, 0)]
        ELSE IF LowerCase(str) = <<"n", "a", "n">>
        THEN [err |-> "", f |-> Float("nan", FALSE, <<>>, 0)]
        ELSE IF ~wellFormed THEN [err |-> "syntax", f |-> Float("fin", FALSE, <<>>, 0)]
        ELSE IF digits # <<>> /\ order > 309
        THEN [err |-> "range", f |-> Float("inf", neg, <<>>, 0)]
        ELSE IF digits # <<>> /\ order < -323 THEN [err |-> "", f |-> Float("fin", neg, <<>>, 0)]
        ELSE [err |-> "", f |-> Float("fin", neg, digits, e - Len(frac))]

\* the variables loadConfig reads
NumberNames == {"MOONSHINE_THREADS", "VAD_MIN_DURATION_S", "MAX_AUDIO_DURATION_S"}
StringNames == {"MOONSHINE_PORT", "MOONSHINE_MODELS_DIR", "ZIPFORMER_RU_DIR",
                "SILERO_VAD_MODEL"}

\* the values a variable read as a number is given: unset or empty; whole
\* numbers above, at and below zero, signed, with leading zeros, with white
\* space, too large for an int; fractions, zeros, exponents, an exponent
\* without digits, magnitudes beyond float64; the special values; no number
NumberValues ==
    {<<>>, <<"8">>, <<"0">>, <<"-", "3">>, <<"+", "2">>, <<"0", "1", "6">>,
     <<" ", "4">>, <<"4", "x">>,
     <<"9", "9", "9", "9", "9", "9", "9", "9", "9", "9",
       "9", "9", "9", "9", "9", "9", "9", "9", "9", "9">>,
     <<"2", ".", "5">>, <<"0", ".", "0">>, <<"-", "0">>, <<"-", "1", ".", "5">>,
     <<".", "5">>, <<"1", "e", "3">>, <<"1", "e">>, <<"1", "e", "9", "9", "9">>,
     <<"1", "e", "-", "9", "9", "9">>,
     <<"N", "a", "N">>, <<"I", "n", "f">>, <<"-", "I", "n", "f">>,
     <<"+", "n", "a", "n">>}

\* the values a variable read as a string is given: unset or empty, or set
\* (a string that is not parsed is written in one piece)
StringValues == {<<>>, <<"/x">>}

\* the environment: os.Getenv(key) is e[key], empty for an unset variable;
\* here the one in which no variable is set
NoEnviron == [v \in NumberNames \cup StringNames |-> <<>>]

\* envOr (main.go 663-668): the default for an unset or empty variable
envOr(e, key, def) == IF e[key] # <<>> THEN e[key] ELSE def

\* (variant) a thread count of zero is accepted
ThreadsAcceptedFromZero(a) == a.err = "" /\ ~a.n.neg

\* main.go 483: err == nil && n > 0
ThreadsAccepted(a) == a.err = "" /\ ~a.n.neg /\ a.n.digits # <<>>

\* main.go 489: err == nil && f >= 0 (false for NaN; -0 >= 0)
VADMinAccepted(a) ==
    /\ a.err = ""
    /\ \/ a.f.kind = "inf" /\ ~a.f.neg
       \/ a.f.kind = "fin" /\ (~a.f.neg \/ a.f.digits = <<>>)

\* main.go 495: err == nil && f > 0 (false for NaN)
MaxAudioAccepted(a) ==
    /\ a.err = ""
    /\ \/ a.f.kind = "inf" /\ ~a.f.neg
       \/ a.f.kind = "fin" /\ ~a.f.neg /\ a.f.digits # <<>>

\* loadConfig (main.go 480-508) in environment e
loadConfig(e) ==
    LET ts == e["MOONSHINE_THREADS"]
        vs == e["VAD_MIN_DURATION_S"]
        ms == e["MAX_AUDIO_DURATION_S"]
    IN  [Port |-> envOr(e, "MOONSHINE_PORT", <<"8092">>),
         ModelsDir |-> envOr(e, "MOONSHINE_MODELS_DIR", <<"/models">>),
         RUModelsDir |-> envOr(e, "ZIPFORMER_RU_DIR", <<"/ru-models">>),
         VADModel |-> envOr(e, "SILERO_VAD_MODEL", <<"/vad/silero_vad.onnx">>),
         NumThreads |-> IF ts # <<>> /\ ThreadsAccepted(Atoi(ts))
                        THEN Atoi(ts).n
                        ELSE IntOf(FALSE, ToDigits(DefaultNumThreads)),
         VADMinDurationS |-> IF vs # <<>> /\ VADMinAccepted(ParseFloat(vs))
                             THEN ParseFloat(vs).f
                             ELSE Float("fin", FALSE, ToDigits(DefaultVADMinDurationS), 0),
         MaxAudioDurationS |-> IF ms # <<>> /\ MaxAudioAccepted(ParseFloat(ms))
                               THEN ParseFloat(ms).f
                               ELSE Float("fin", FALSE, ToDigits(DefaultMaxAudioDurationS), 0)]

\* loadConfig has returned for environment e
Configured(e) == [done |-> TRUE, cfg |-> loadConfig(e)]

\* ------------------------------------------------------------- VAD engine
\* sherpa.VoiceActivityDetector, by its call contract: queue holds the
\* detected segments not yet popped, open the speech segment still being
\* accumulated (len 0: none), fed the windows accepted since the last Reset,
\* partial the samples accepted that do not yet fill a window.
NoSeg == [len |-> 0, by |-> 0]
Seg(n, r) == [len |-> n, by |-> r]
VadClean == [queue |-> <<>>, open |-> NoSeg, fed |-> 0, partial |-> 0]

SegSeqs == UNION {[1..m -> SegLens] : m \in 0..MaxSegs}

\* what the engine may detect in fedSamples samples of audio: a sequence of
\* segment lengths that fit in it, the last of which may still be open
Detections(fedSamples) ==
    {[lens |-> d, lastOpen |-> o] : d \in {x \in SegSeqs : SumLens(x) <= fedSamples},
                                    o \in BOOLEAN}

\* (variant) the remainder after the last full window is not fed
WindowsFedFullOnly(n) == n \div windowSize

\* number of AcceptWaveform calls of the feed loop and the padded tail
\* (main.go 1087-1094): one per full window, one more for a remainder
WindowsFed(n) == (n \div windowSize) + (IF n % windowSize # 0 THEN 1 ELSE 0)

\* vadDetector.AcceptWaveform for every window of a buffer: k windows of
\* windowSize samples each, in which the engine detects d
VadAccept(v, r, k, d) ==
    LET stale == IF v.open.len > 0 THEN <<v.open>> ELSE <<>>
        segs == [i \in 1..Len(d.lens) |-> Seg(d.lens[i], r)]
        closed == IF d.lastOpen /\ segs # <<>>
                  THEN SubSeq(segs, 1, Len(segs) - 1) ELSE segs
    IN  [queue |-> v.queue \o stale \o closed,
         open |-> IF d.lastOpen /\ segs # <<>> THEN Last(segs) ELSE NoSeg,
         fed |-> v.fed + ((v.partial + k * windowSize) \div windowSize),
         partial |-> (v.partial + k * windowSize) % windowSize]

\* vadDetector.Flush: force emission of the segment still open
VadFlushed(v) ==
    [v EXCEPT !.queue = IF v.open.len > 0 THEN Append(v.queue, v.open) ELSE v.queue,
              !.open = NoSeg]

\* vadDetector.Pop
VadPopped(v) == [v EXCEPT !.queue = Tail(v.queue)]

\* (variant) Reset leaves the engine as it is
VadResetNoop(v) == v

\* vadDetector.Reset
VadResetState(v) == VadClean


\* ------------------------------------------------------------------ locks
\* (variant) Lock replaced by a TryLock whose result is ignored
AcquirableTry(l) == TRUE

\* (variant) muVAD taken as a reader lock, which readers share
AcquirableSharedVAD(l) == l = "VAD" \/ mu[l] = {}

\* sync.Mutex.Lock returns only when nobody holds the mutex
Acquirable(l) == mu[l] = {}

\* recognizeChunk's switch (main.go 1116-1135): the engine a language code
\* is decoded by, and the mutex taken around that decode
\* (variant) the ru case also catches the empty code
EngineOfEmptyIsRu(lang) == IF lang \in {"ru", ""} THEN "RU" ELSE "EN"

EngineOf(lang) == IF lang = "ru" THEN "RU" ELSE "EN"

\* (variant) one global mutex for both engines
RecLockOfGlobal(lang) == "EN"

RecLockOf(lang) == IF lang = "ru" THEN "RU" ELSE "EN"

\* ------------------------------------------------------- startup (main)
At(step) == mainpc = <<step, "">>
Serving == At("serving")

\* log.Fatalf has ended the process; mainpc[2] says where: "load" (main.go
\* 534), "listen" (628) or "crash" (a fault inside a native call)
Fatal == mainpc[1] = "fatal"

\* the process runs: it has neither died nor returned from main
Running == mainpc[1] \notin {"fatal", "exited"}

\* the goroutine of request r is at position at of transcribeFile; it takes
\* steps only while the process runs
Step(r, at) == Running /\ pc[r] = at

\* (variant) a nil EN handle is only logged, as a nil RU handle is
LoadENDoneLogged ==
    /\ loadEN = "running"
    /\ \E ok \in BOOLEAN :
          /\ recognizerEN' = ok
          /\ loadEN' = "done"
          /\ mainpc' = mainpc
    /\ UNCHANGED <<loadRU, recognizerRU, vadDetector, cfg, mu, inflight, vad,
                   workload, pc, useVAD, chunks, current, ci, parts, text,
                   speechMs, resp, history, normalized, disk, lifecycle, wavio,
                   confio>>

\* goroutine at main.go 529-537: NewOfflineRecognizer for EN; a nil handle
\* is fatal to the process (log.Fatalf)
LoadENDone ==
    /\ loadEN = "running"
    /\ \E ok \in BOOLEAN :
          /\ recognizerEN' = ok
          /\ loadEN' = "done"
          /\ mainpc' = IF ok THEN mainpc ELSE <<"fatal", "load">>
    /\ UNCHANGED <<loadRU, recognizerRU, vadDetector, cfg, mu, inflight, vad,
                   workload, pc, useVAD, chunks, current, ci, parts, text,
                   speechMs, resp, history, normalized, disk, lifecycle, wavio,
                   confio>>

\* (variant) a nil RU handle is fatal, as a nil EN handle is
LoadRUDoneFatal ==
    /\ loadRU = "running"
    /\ Running
    /\ \E ok \in BOOLEAN :
          /\ recognizerRU' = ok
          /\ mainpc' = IF ok THEN mainpc ELSE <<"fatal", "load">>
    /\ loadRU' = "done"
    /\ UNCHANGED <<loadEN, recognizerEN, vadDetector, cfg, mu, inflight, vad,
                   workload, pc, useVAD, chunks, current, ci, parts, text,
                   speechMs, resp, history, normalized, disk, lifecycle, wavio,
                   confio>>

\* goroutine at main.go 553-562: NewOfflineRecognizer for RU; nil is logged
LoadRUDone ==
    /\ loadRU = "running"
    /\ Running
    /\ \E ok \in BOOLEAN : recognizerRU' = ok
    /\ loadRU' = "done"
    /\ UNCHANGED <<mainpc, loadEN, recognizerEN, vadDetector, cfg, mu, inflight,
                   vad, workload, pc, useVAD, chunks, current, ci, parts, text,
                   speechMs, resp, history, normalized, disk, lifecycle, wavio,
                   confio>>

\* (variant) only the EN loader is waited for
WgWaitEnOnly ==
    /\ At("wait")
    /\ loadEN = "done"
    /\ mainpc' = <<"vad", "">>
    /\ UNCHANGED <<loadEN, loadRU, globals, mu, inflight, vad, workload, pc,
                   useVAD, chunks, current, ci, parts, text, speechMs, resp,
                   history, normalized, disk, lifecycle, wavio, confio>>

\* wg.Wait (main.go 567)
WgWait ==
    /\ At("wait")
    /\ loadEN = "done"
    /\ loadRU # "running"
    /\ mainpc' = <<"vad", "">>
    /\ UNCHANGED <<loadEN, loadRU, globals, mu, inflight, vad, workload, pc,
                   useVAD, chunks, current, ci, parts, text, speechMs, resp,
                   history, normalized, disk, lifecycle, wavio, confio>>

\* main.go 576-596: the VAD model is loaded if its file exists and the
\* engine accepts it; then warmup() is called
LoadVAD ==
    /\ At("vad")
    /\ \E ok \in BOOLEAN : vadDetector' = ok
    /\ mainpc' = <<"lock", "EN">>
    /\ UNCHANGED <<loadEN, loadRU, recognizerEN, recognizerRU, cfg, mu, inflight,
                   vad, workload, pc, useVAD, chunks, current, ci, parts, text,
                   speechMs, resp, history, normalized, disk, lifecycle, wavio,
                   confio>>

\* warmup (main.go 642-661), one action per statement group, for engine e
WarmupLock(e) ==
    /\ mainpc = <<"lock", e>>
    /\ Acquirable(e)
    /\ mu' = [mu EXCEPT ![e] = @ \cup {0}]
    /\ mainpc' = <<"accept", e>>
    /\ UNCHANGED <<loadEN, loadRU, globals, inflight, vad, workload, pc, useVAD,
                   chunks, current, ci, parts, text, speechMs, resp, history,
                   normalized, disk, lifecycle, wavio, confio>>

WarmupAccept(e) ==
    /\ mainpc = <<"accept", e>>
    /\ inflight' = [inflight EXCEPT ![e] = @ \cup {0}]
    /\ mainpc' = <<"decode", e>>
    /\ UNCHANGED <<loadEN, loadRU, globals, mu, vad, workload, pc, useVAD, chunks,
                   current, ci, parts, text, speechMs, resp, history, normalized,
                   disk, lifecycle, wavio, confio>>

WarmupDecode(e) ==
    /\ mainpc = <<"decode", e>>
    /\ mainpc' = <<"delete", e>>
    /\ UNCHANGED <<loadEN, loadRU, globals, mu, inflight, vad, workload, pc,
                   useVAD, chunks, current, ci, parts, text, speechMs, resp,
                   history, normalized, disk, lifecycle, wavio, confio>>

WarmupDelete(e) ==
    /\ mainpc = <<"delete", e>>
    /\ inflight' = [inflight EXCEPT ![e] = @ \ {0}]
    /\ mainpc' = <<"unlock", e>>
    /\ UNCHANGED <<loadEN, loadRU, globals, mu, vad, workload, pc, useVAD, chunks,
                   current, ci, parts, text, speechMs, resp, history, normalized,
                   disk, lifecycle, wavio, confio>>

\* after the EN warmup the RU engine is warmed up iff it is loaded; then
\* main registers the handlers and starts the server goroutine (main.go
\* 600-630)
WarmupUnlock(e) ==
    /\ mainpc = <<"unlock", e>>
    /\ mu' = [mu EXCEPT ![e] = @ \ {0}]
    /\ mainpc' = IF e = "EN" /\ recognizerRU THEN <<"lock", "RU">>
                 ELSE <<"listen", "">>
    /\ UNCHANGED <<loadEN, loadRU, globals, inflight, vad, workload, pc, useVAD,
                   chunks, current, ci, parts, text, speechMs, resp, history,
                   normalized, disk, lifecycle, wavio, confio>>


\* ------------------------------------------------ transcribeFile (per request)
env == <<startup, globals, workload>>
locals == <<useVAD, chunks, current, ci, parts, text, speechMs>>

\* transcribeFile returns response rp before any defer is registered
ReturnNow(r, rp) ==
    /\ resp' = [resp EXCEPT ![r] = rp]
    /\ pc' = [pc EXCEPT ![r] = "done"]

\* transcribeFile returns response rp; the deferred os.Remove(cleanup),
\* registered at main.go 1007-1009 iff cleanup is set, runs
Return(r, rp) ==
    /\ ReturnNow(r, rp)
    /\ disk' = Removed(disk, cleanup[r])

Goto(r, label) == pc' = [pc EXCEPT ![r] = label]

\* strings.TrimSpace: the white space around the text is cut off
TrimSpace(t) == [t EXCEPT !.pad = 0]

\* t != "" (main.go 1062), for a trimmed text
IsBlank(t) == t.len = 0

\* compressionRatio (main.go 1138-1147), as the fraction <<numerator,
\* denominator>>: 0 for a text of fewer than 10 bytes, else len(text) over
\* the length of its zlib compression
compressionRatio(t) ==
    IF t.len < MinScoredLen THEN <<0, 1>> ELSE <<t.len, t.zlen>>

\* (variant) a score of exactly 2.4 is dropped too
HallucinatedAtLimit(t) ==
    LET ratio == compressionRatio(t)
    IN  ratio[1] * RatioLimitDen >= RatioLimitNum * ratio[2]

\* ratio > 2.4 (main.go 1058); the float64 quotient of two such small
\* integers compares with the float64 2.4 as the exact fractions do
Hallucinated(t) ==
    LET ratio == compressionRatio(t)
    IN  ratio[1] * RatioLimitDen > RatioLimitNum * ratio[2]

\* strings.Join(parts, " "): the parts with one separator between neighbours
RECURSIVE Join(_, _)
Join(ps, sep) ==
    IF Len(ps) <= 1 THEN ps ELSE <<Head(ps), sep>> \o Join(Tail(ps), sep)

\* the separator of the final text, in the shape of a part
Sep == [chunk |-> 0, text |-> Space]

\* the handler calls transcribeFile (only once the server listens)
Start(r) ==
    /\ Serving
    /\ r \in arrivals
    /\ Step(r, "idle")
    /\ Goto(r, "normalize")
    /\ UNCHANGED <<env, mu, inflight, vad, locals, resp, history, normalized,
                   disk, lifecycle, wavio, confio>>

\* (variant) the file handed to loadWav is always scheduled for removal
NormalizeCleansInput(r) ==
    /\ Step(r, "normalize")
    /\ IF ToLower(req[r].audio.ext) # ".wav"
       THEN /\ ffmpegRuns' = ffmpegRuns \cup {r}
            /\ \E u \in names[r] :
                  IF req[r].audio.ffmpegOk
                  THEN /\ disk' = [disk EXCEPT ![TmpPath(u)] = "converted"]
                       /\ writer' = [writer EXCEPT ![TmpPath(u)] = r]
                       /\ cleanup' = [cleanup EXCEPT ![r] = TmpPath(u)]
                       /\ Goto(r, "loadwav")
                       /\ UNCHANGED resp
                  ELSE /\ \E left \in {"absent", "partial"} :
                             /\ disk' = [disk EXCEPT ![TmpPath(u)] = left]
                             /\ writer' = [writer EXCEPT ![TmpPath(u)] =
                                             IF left = "partial" THEN r ELSE @]
                       /\ ReturnNow(r, Response(<<>>, 0, "ffmpeg", StatusUnprocessableEntity))
                       /\ UNCHANGED cleanup
       ELSE /\ cleanup' = [cleanup EXCEPT ![r] = InPath(r)]
            /\ Goto(r, "loadwav")
            /\ UNCHANGED <<resp, disk, ffmpegRuns, writer>>
    /\ UNCHANGED <<env, mu, inflight, vad, locals, history, lifecycle, wavio,
                   confio>>

\* main.go 995-1006: a .wav path (in any case) is used as it is; anything
\* else goes through ffmpeg, which writes the temporary file. If ffmpeg
\* fails the function returns status 422 at once, with cleanup still unset;
\* the output file is then absent or partly written, as ffmpeg left it.
\* ffmpeg runs with -y: a file already at the path is overwritten
Normalize(r) ==
    /\ Step(r, "normalize")
    /\ IF ToLower(req[r].audio.ext) # ".wav"
       THEN /\ ffmpegRuns' = ffmpegRuns \cup {r}
            /\ \E u \in names[r] :
                  IF req[r].audio.ffmpegOk
                  THEN /\ disk' = [disk EXCEPT ![TmpPath(u)] = "converted"]
                       /\ writer' = [writer EXCEPT ![TmpPath(u)] = r]
                       /\ cleanup' = [cleanup EXCEPT ![r] = TmpPath(u)]
                       /\ Goto(r, "loadwav")
                       /\ UNCHANGED resp
                  ELSE /\ \E left \in {"absent", "partial"} :
                             /\ disk' = [disk EXCEPT ![TmpPath(u)] = left]
                             /\ writer' = [writer EXCEPT ![TmpPath(u)] =
                                             IF left = "partial" THEN r ELSE @]
                       /\ ReturnNow(r, Response(<<>>, 0, "ffmpeg", StatusUnprocessableEntity))
                       /\ UNCHANGED cleanup
       ELSE Goto(r, "loadwav") /\ UNCHANGED <<resp, disk, cleanup, ffmpegRuns, writer>>
    /\ UNCHANGED <<env, mu, inflight, vad, locals, history, lifecycle, wavio,
                   confio>>

\* (variant) the error of loadWav is dropped
LoadWavIgnoresError(r) ==
    /\ Step(r, "loadwav")
    /\ Goto(r, "validate")
    /\ UNCHANGED <<env, mu, inflight, vad, locals, resp, history, normalized,
                   disk, lifecycle, wavio, confio>>

\* the local wavPath of transcribeFile: the temporary file if there is one
WavPath(r) == IF cleanup[r] = NoPath THEN InPath(r) ELSE cleanup[r]

\* main.go 1011-1014: loadWav; an error (the file is gone or cut short, or
\* it is no WAV file loadWav supports) is returned with status 400
LoadWav(r) ==
    /\ Step(r, "loadwav")
    /\ IF ~req[r].audio.wavOk \/ disk[WavPath(r)] \in {"absent", "partial"}
       THEN Return(r, Response(<<>>, 0, "load wav", StatusBadRequest))
       ELSE Goto(r, "validate") /\ UNCHANGED <<resp, disk>>
    /\ UNCHANGED <<env, mu, inflight, vad, locals, history, normalized, lifecycle,
                   wavio, confio>>

\* (variant) audio of exactly the ceiling is rejected too
TooLongAtCeiling(n) == n >= cfg.MaxAudioDurationS * SampleHz

\* audioDurS > cfg.MaxAudioDurationS with audioDurS = len(samples) / 16000.0
\* (the division is exact in float64 for whole-second limits)
TooLong(n) == n > cfg.MaxAudioDurationS * SampleHz

\* (variant) the RU engine is not checked before the pipeline goes on
ValidateNoEngineCheck(r) ==
    /\ Step(r, "validate")
    /\ IF req[r].audio.rate # SampleHz
       THEN Return(r, Response(<<>>, 0, "unsupported sample rate", StatusBadRequest))
       ELSE IF TooLong(req[r].audio.n)
       THEN Return(r, Response(<<>>, 0, "audio too long", StatusBadRequest))
       ELSE Goto(r, "decide") /\ UNCHANGED <<resp, disk>>
    /\ UNCHANGED <<env, mu, inflight, vad, locals, history, normalized, lifecycle,
                   wavio, confio>>

\* (variant) a missing RU engine is loaded by the first request that needs it
ValidateLoadsOnDemand(r) ==
    /\ Step(r, "validate")
    /\ IF req[r].audio.rate # SampleHz
       THEN /\ Return(r, Response(<<>>, 0, "unsupported sample rate", StatusBadRequest))
            /\ UNCHANGED recognizerRU
       ELSE IF TooLong(req[r].audio.n)
       THEN /\ Return(r, Response(<<>>, 0, "audio too long", StatusBadRequest))
            /\ UNCHANGED recognizerRU
       ELSE /\ recognizerRU' = (recognizerRU \/ req[r].lang = "ru")
            /\ Goto(r, "decide")
            /\ UNCHANGED <<resp, disk>>
    /\ UNCHANGED <<startup, recognizerEN, vadDetector, cfg, workload, mu,
                   inflight, vad, locals, history, normalized, lifecycle, wavio,
                   confio>>

\* (variant) a missing RU engine is answered as a client error
ValidateEngineIsBadRequest(r) ==
    /\ Step(r, "validate")
    /\ IF req[r].audio.rate # SampleHz
       THEN Return(r, Response(<<>>, 0, "unsupported sample rate", StatusBadRequest))
       ELSE IF TooLong(req[r].audio.n)
       THEN Return(r, Response(<<>>, 0, "audio too long", StatusBadRequest))
       ELSE IF req[r].lang = "ru" /\ ~recognizerRU
       THEN Return(r, Response(<<>>, 0, "RU model not loaded", StatusBadRequest))
       ELSE Goto(r, "decide") /\ UNCHANGED <<resp, disk>>
    /\ UNCHANGED <<env, mu, inflight, vad, locals, history, normalized, lifecycle,
                   wavio, confio>>

\* (variant) the RU engine is checked before the audio is
ValidateEngineFirst(r) ==
    /\ Step(r, "validate")
    /\ IF req[r].lang = "ru" /\ ~recognizerRU
       THEN Return(r, Response(<<>>, 0, "RU model not loaded", StatusServiceUnavailable))
       ELSE IF req[r].audio.rate # SampleHz
       THEN Return(r, Response(<<>>, 0, "unsupported sample rate", StatusBadRequest))
       ELSE IF TooLong(req[r].audio.n)
       THEN Return(r, Response(<<>>, 0, "audio too long", StatusBadRequest))
       ELSE Goto(r, "decide") /\ UNCHANGED <<resp, disk>>
    /\ UNCHANGED <<env, mu, inflight, vad, locals, history, normalized, lifecycle,
                   wavio, confio>>

\* main.go 1015-1028: sample rate, duration ceiling, RU engine loaded
Validate(r) ==
    /\ Step(r, "validate")
    /\ IF req[r].audio.rate # SampleHz
       THEN Return(r, Response(<<>>, 0, "unsupported sample rate", StatusBadRequest))
       ELSE IF TooLong(req[r].audio.n)
       THEN Return(r, Response(<<>>, 0, "audio too long", StatusBadRequest))
       ELSE IF req[r].lang = "ru" /\ ~recognizerRU
       THEN Return(r, Response(<<>>, 0, "RU model not loaded", StatusServiceUnavailable))
       ELSE Goto(r, "decide") /\ UNCHANGED <<resp, disk>>
    /\ UNCHANGED <<env, mu, inflight, vad, locals, history, normalized, lifecycle,
                   wavio, confio>>

\* (variant) audio must be strictly longer than the minimum
UseVADStrictlyLonger(override, n) ==
    IF override # "unset"
    THEN override = "true" /\ vadDetector
    ELSE vadDetector /\ n > cfg.VADMinDurationS * SampleHz

\* main.go 1031-1034: auto-enable for long audio, respect explicit override
UseVAD(override, n) ==
    IF override # "unset"
    THEN override = "true" /\ vadDetector
    ELSE vadDetector /\ n >= cfg.VADMinDurationS * SampleHz

\* main.go 1031-1052: decide; without VAD the whole buffer is the one chunk
DecideVAD(r) ==
    /\ Step(r, "decide")
    /\ LET u == UseVAD(req[r].override, req[r].audio.n)
       IN  /\ useVAD' = [useVAD EXCEPT ![r] = u]
           /\ IF u
              THEN Goto(r, "vad_lock") /\ UNCHANGED <<chunks, ci>>
              ELSE /\ chunks' = [chunks EXCEPT ![r] = <<WholeBuffer(req[r].audio.n)>>]
                   /\ ci' = [ci EXCEPT ![r] = 1]
                   /\ Goto(r, "rec_lock")
    /\ UNCHANGED <<env, mu, inflight, vad, current, parts, text, speechMs, resp,
                   history, normalized, disk, lifecycle, wavio, confio>>

\* ---------------------------------------------------------- applyVADChunked
\* main.go 1084: muVAD.Lock()
VadLock(r) ==
    /\ Step(r, "vad_lock")
    /\ Acquirable("VAD")
    /\ mu' = [mu EXCEPT !["VAD"] = @ \cup {r}]
    /\ locked' = [locked EXCEPT ![r] = @ \cup {"VAD"}]
    /\ Goto(r, "vad_feed")
    /\ UNCHANGED <<env, inflight, vad, locals, resp, heard, drained, decoded,
                   normalized, disk, lifecycle, wavio, confio>>

\* main.go 1087-1094: every full window, then the zero-padded remainder
VadFeed(r) ==
    /\ Step(r, "vad_feed")
    /\ LET k == WindowsFed(req[r].audio.n)
       IN  \E d \in Detections(k * windowSize) : vad' = VadAccept(vad, r, k, d)
    /\ Goto(r, "vad_flush")
    /\ UNCHANGED <<env, mu, inflight, locals, resp, history, normalized, disk,
                   lifecycle, wavio, confio>>

\* main.go 1095: vadDetector.Flush()
VadFlush(r) ==
    /\ Step(r, "vad_flush")
    /\ vad' = VadFlushed(vad)
    /\ Goto(r, "vad_drain")
    /\ UNCHANGED <<env, mu, inflight, locals, resp, history, normalized, disk,
                   lifecycle, wavio, confio>>

\* (variant) only the current chunk is measured, not the segment to append
ClosesChunkCurrentOnly(cur, seg) == cur.len > maxChunkSamples /\ cur.len > 0

\* (variant) a chunk that would be exactly at the limit is closed too
ClosesChunkAtLimit(cur, seg) == cur.len + seg.len >= maxChunkSamples /\ cur.len > 0

\* main.go 1101: the current chunk is closed before seg
ClosesChunk(cur, seg) == cur.len + seg.len > maxChunkSamples /\ cur.len > 0

\* main.go 1099-1107: one iteration of the drain loop
VadDrain(r) ==
    /\ Step(r, "vad_drain")
    /\ vad.queue # <<>>
    /\ LET seg == Head(vad.queue)
           close == ClosesChunk(current[r], seg)
           base == IF close THEN EmptyChunk ELSE current[r]
       IN  /\ chunks' = [chunks EXCEPT ![r] = IF close THEN Append(@, current[r]) ELSE @]
           /\ current' = [current EXCEPT ![r] =
                            [len |-> base.len + seg.len, segs |-> Append(base.segs, seg)]]
           /\ drained' = [drained EXCEPT ![r] = Append(@, seg)]
    /\ vad' = VadPopped(vad)
    /\ UNCHANGED <<env, mu, inflight, pc, useVAD, ci, parts, text, speechMs, resp,
                   heard, decoded, locked, normalized, disk, lifecycle, wavio,
                   confio>>

\* (variant) the current chunk is appended whether or not it holds samples
VadDrainEndAlways(r) ==
    /\ Step(r, "vad_drain")
    /\ vad.queue = <<>>
    /\ chunks' = [chunks EXCEPT ![r] = Append(@, current[r])]
    /\ Goto(r, "vad_reset")
    /\ UNCHANGED <<env, mu, inflight, vad, useVAD, current, ci, parts, text,
                   speechMs, resp, history, normalized, disk, lifecycle, wavio,
                   confio>>

\* main.go 1099, 1108-1110: the engine is empty; a non-empty current chunk
\* is the last chunk
VadDrainEnd(r) ==
    /\ Step(r, "vad_drain")
    /\ vad.queue = <<>>
    /\ chunks' = [chunks EXCEPT ![r] = IF current[r].len > 0 THEN Append(@, current[r]) ELSE @]
    /\ Goto(r, "vad_reset")
    /\ UNCHANGED <<env, mu, inflight, vad, useVAD, current, ci, parts, text,
                   speechMs, resp, history, normalized, disk, lifecycle, wavio,
                   confio>>

\* main.go 1111: vadDetector.Reset()
VadReset(r) ==
    /\ Step(r, "vad_reset")
    /\ vad' = VadResetState(vad)
    /\ Goto(r, "vad_unlock")
    /\ UNCHANGED <<env, mu, inflight, locals, resp, history, normalized, disk,
                   lifecycle, wavio, confio>>

\* (variant) muVAD stays locked until transcribeFile returns
VadUnlockDeferred(r) ==
    /\ Step(r, "vad_unlock")
    /\ mu' = mu
    /\ Goto(r, "vad_done")
    /\ UNCHANGED <<env, inflight, vad, locals, resp, history, normalized, disk,
                   lifecycle, wavio, confio>>

\* main.go 1085, 1112: the deferred muVAD.Unlock() as the function returns
VadUnlock(r) ==
    /\ Step(r, "vad_unlock")
    /\ mu' = [mu EXCEPT !["VAD"] = @ \ {r}]
    /\ Goto(r, "vad_done")
    /\ UNCHANGED <<env, inflight, vad, locals, resp, history, normalized, disk,
                   lifecycle, wavio, confio>>

\* main.go 1045-1047: speechMs += float64(len(c)) / 16.0 over the chunks
\* (exact for the sample counts used here, all multiples of 16)
RECURSIVE SpeechMsOf(_)
SpeechMsOf(cs) ==
    IF cs = <<>> THEN 0 ELSE (Head(cs).len \div MsDivisor) + SpeechMsOf(Tail(cs))

\* (variant) silence is reported as an error
AfterVADSilenceIsError(r) ==
    /\ Step(r, "vad_done")
    /\ IF Len(chunks[r]) = 0
       THEN Return(r, Response(<<>>, 0, "no speech detected", StatusBadRequest))
            /\ UNCHANGED <<speechMs, ci>>
       ELSE /\ speechMs' = [speechMs EXCEPT ![r] = SpeechMsOf(chunks[r])]
            /\ ci' = [ci EXCEPT ![r] = 1]
            /\ Goto(r, "rec_lock")
            /\ UNCHANGED <<resp, disk>>
    /\ UNCHANGED <<env, mu, inflight, vad, useVAD, chunks, current, parts, text,
                   history, normalized, lifecycle, wavio, confio>>

\* main.go 1042-1049: no chunk is an empty 200 response; otherwise the
\* speech duration is summed over the chunks (len / 16.0 each)
AfterVAD(r) ==
    /\ Step(r, "vad_done")
    /\ IF Len(chunks[r]) = 0
       THEN Return(r, Response(<<>>, 0, "", StatusOK)) /\ UNCHANGED <<speechMs, ci>>
       ELSE /\ speechMs' = [speechMs EXCEPT ![r] = SpeechMsOf(chunks[r])]
            /\ ci' = [ci EXCEPT ![r] = 1]
            /\ Goto(r, "rec_lock")
            /\ UNCHANGED <<resp, disk>>
    /\ UNCHANGED <<env, mu, inflight, vad, useVAD, chunks, current, parts, text,
                   history, normalized, lifecycle, wavio, confio>>


\* ------------------------------------------------------------ recognizeChunk
\* main.go 1118 / 1127: lock the mutex of the language's engine
RecLock(r) ==
    /\ Step(r, "rec_lock")
    /\ Acquirable(RecLockOf(req[r].lang))
    /\ mu' = [mu EXCEPT ![RecLockOf(req[r].lang)] = @ \cup {r}]
    /\ locked' = [locked EXCEPT ![r] = @ \cup {RecLockOf(req[r].lang)}]
    /\ Goto(r, "rec_accept")
    /\ UNCHANGED <<env, inflight, vad, locals, resp, heard, drained, decoded,
                   normalized, disk, lifecycle, wavio, confio>>

\* (variant) the mutex is released once the buffer is submitted, before Decode
RecAcceptUnlocks(r) ==
    /\ Step(r, "rec_accept")
    /\ inflight' = [inflight EXCEPT ![EngineOf(req[r].lang)] = @ \cup {r}]
    /\ mu' = [mu EXCEPT ![RecLockOf(req[r].lang)] = @ \ {r}]
    /\ Goto(r, "rec_decode")
    /\ UNCHANGED <<env, vad, locals, resp, history, normalized, disk, lifecycle,
                   wavio, confio>>

\* main.go 1119-1120 / 1128-1129: NewOfflineStream, AcceptWaveform
RecAccept(r) ==
    /\ Step(r, "rec_accept")
    /\ inflight' = [inflight EXCEPT ![EngineOf(req[r].lang)] = @ \cup {r}]
    /\ Goto(r, "rec_decode")
    /\ UNCHANGED <<env, mu, vad, locals, resp, history, normalized, disk,
                   lifecycle, wavio, confio>>

\* the buffer process p has submitted to an engine: chunk ci of request p,
\* or the warmup's silence (process 0)
Submitted(p) == [by |-> p, index |-> IF p = 0 THEN 0 ELSE ci[p]]

\* main.go 1121 / 1130: the engine's Decode. The engines are not reentrant:
\* the buffer a Decode works on (input) is the caller's only if no other
\* stream is submitted to the engine at that time
RecDecode(r) ==
    /\ Step(r, "rec_decode")
    /\ \E p \in inflight[EngineOf(req[r].lang)] :
          decoded' = [decoded EXCEPT ![r] =
                        Append(@, [engine |-> EngineOf(req[r].lang),
                                   index |-> ci[r],
                                   chunk |-> chunks[r][ci[r]],
                                   input |-> Submitted(p),
                                   held |-> {l \in Locks : r \in mu[l]}])]
    /\ Goto(r, "rec_result")
    /\ UNCHANGED <<env, mu, inflight, vad, locals, resp, heard, drained, locked,
                   normalized, disk, lifecycle, wavio, confio>>

\* main.go 1122-1123 / 1131-1132: GetResult().Text, DeleteOfflineStream
RecResult(r) ==
    /\ Step(r, "rec_result")
    /\ \E t \in vocab : text' = [text EXCEPT ![r] = t]
    /\ inflight' = [inflight EXCEPT ![EngineOf(req[r].lang)] = @ \ {r}]
    /\ Goto(r, "rec_unlock")
    /\ UNCHANGED <<env, mu, vad, useVAD, chunks, current, ci, parts, speechMs,
                   resp, history, normalized, disk, lifecycle, wavio, confio>>

\* (variant) recognizeChunk returns the text without unlocking
RecUnlockForgotten(r) ==
    /\ Step(r, "rec_unlock")
    /\ Goto(r, "filter")
    /\ UNCHANGED <<env, mu, inflight, vad, locals, resp, history, normalized,
                   disk, lifecycle, wavio, confio>>

\* main.go 1124 / 1133: unlock and return the text
RecUnlock(r) ==
    /\ Step(r, "rec_unlock")
    /\ mu' = [mu EXCEPT ![RecLockOf(req[r].lang)] = @ \ {r}]
    /\ Goto(r, "filter")
    /\ UNCHANGED <<env, inflight, vad, locals, resp, history, normalized, disk,
                   lifecycle, wavio, confio>>

\* (variant) an empty text is appended like any other
FilterKeepsBlank(r) ==
    /\ Step(r, "filter")
    /\ LET t == TrimSpace(text[r])
           keep == ~Hallucinated(t)
       IN  /\ parts' = [parts EXCEPT ![r] =
                          IF keep THEN Append(@, [chunk |-> ci[r], text |-> t]) ELSE @]
           /\ heard' = [heard EXCEPT ![r] =
                          Append(@, [chunk |-> ci[r], raw |-> text[r], t |-> t,
                                     ratio |-> compressionRatio(t), kept |-> keep])]
    /\ ci' = [ci EXCEPT ![r] = @ + 1]
    /\ text' = [text EXCEPT ![r] = EmptyText]
    /\ Goto(r, IF ci[r] < Len(chunks[r]) THEN "rec_lock" ELSE "finish")
    /\ UNCHANGED <<env, mu, inflight, vad, useVAD, chunks, current, speechMs,
                   resp, drained, decoded, locked, normalized, disk, lifecycle,
                   wavio, confio>>

\* main.go 1056-1065: trim the text; drop a hallucinated or empty one, keep
\* any other; then the next chunk, or the end of the loop
Filter(r) ==
    /\ Step(r, "filter")
    /\ LET t == TrimSpace(text[r])
           keep == ~Hallucinated(t) /\ ~IsBlank(t)
       IN  /\ parts' = [parts EXCEPT ![r] =
                          IF keep THEN Append(@, [chunk |-> ci[r], text |-> t]) ELSE @]
           /\ heard' = [heard EXCEPT ![r] =
                          Append(@, [chunk |-> ci[r], raw |-> text[r], t |-> t,
                                     ratio |-> compressionRatio(t), kept |-> keep])]
    /\ ci' = [ci EXCEPT ![r] = @ + 1]
    /\ text' = [text EXCEPT ![r] = EmptyText]
    /\ Goto(r, IF ci[r] < Len(chunks[r]) THEN "rec_lock" ELSE "finish")
    /\ UNCHANGED <<env, mu, inflight, vad, useVAD, chunks, current, speechMs,
                   resp, drained, decoded, locked, normalized, disk, lifecycle,
                   wavio, confio>>

\* (variant) the speech duration is taken from the chunks on every path
FinishSpeechAlways(r) ==
    /\ Step(r, "finish")
    /\ Return(r, Response(Join(parts[r], Sep), SpeechMsOf(chunks[r]), "", StatusOK))
    /\ UNCHANGED <<env, mu, inflight, vad, locals, history, normalized, lifecycle,
                   wavio, confio>>

\* (variant) a response that lost a chunk to the filter says so in Error
FinishReportsSuppression(r) ==
    /\ Step(r, "finish")
    /\ Return(r, Response(Join(parts[r], Sep), IF speechMs[r] > 0 THEN speechMs[r] ELSE 0,
                          IF \E i \in 1..Len(heard[r]) : Hallucinated(heard[r][i].t)
                          THEN "hallucination suppressed" ELSE "",
                          StatusOK))
    /\ UNCHANGED <<env, mu, inflight, vad, locals, history, normalized, lifecycle,
                   wavio, confio>>

\* (variant) the speech duration is reported only next to a text
FinishSpeechOnlyWithText(r) ==
    /\ Step(r, "finish")
    /\ Return(r, Response(Join(parts[r], Sep),
                          IF speechMs[r] > 0 /\ parts[r] # <<>> THEN speechMs[r] ELSE 0,
                          "", StatusOK))
    /\ UNCHANGED <<env, mu, inflight, vad, locals, history, normalized, lifecycle,
                   wavio, confio>>

\* main.go 1066-1075: join the parts; SpeechMs only when positive
Finish(r) ==
    /\ Step(r, "finish")
    /\ Return(r, Response(Join(parts[r], Sep), IF speechMs[r] > 0 THEN speechMs[r] ELSE 0,
                          "", StatusOK))
    /\ UNCHANGED <<env, mu, inflight, vad, locals, history, normalized, lifecycle,
                   wavio, confio>>

\* --------------------------------------------- listening and shutdown (main)
\* main.go 626-627: the server goroutine's ListenAndServe has bound the port
\* and accepts connections
ListenAndServe ==
    /\ At("listen")
    /\ mainpc' = <<"serving", "">>
    /\ UNCHANGED <<loadEN, loadRU, globals, mu, inflight, vad, workload, pc,
                   locals, resp, history, normalized, disk, lifecycle, wavio,
                   confio>>

\* main.go 627-629: ListenAndServe cannot bind the port and returns an error
\* other than ErrServerClosed: log.Fatalf
ListenFails ==
    /\ At("listen")
    /\ mainpc' = <<"fatal", "listen">>
    /\ UNCHANGED <<loadEN, loadRU, globals, mu, inflight, vad, workload, pc,
                   locals, resp, history, normalized, disk, lifecycle, wavio,
                   confio>>

\* main.go 627-629: the accept loop of a serving ListenAndServe fails for
\* good and it returns an error other than ErrServerClosed: log.Fatalf
ServeFails ==
    /\ Serving
    /\ mainpc' = <<"fatal", "listen">>
    /\ UNCHANGED <<loadEN, loadRU, globals, mu, inflight, vad, workload, pc,
                   locals, resp, history, normalized, disk, lifecycle, wavio,
                   confio>>

\* main.go 613, 632-636: SIGINT or SIGTERM ends the wait on ctx.Done and
\* main calls srv.Shutdown, which closes the listener first: from here on
\* no new request reaches a handler
Signal ==
    /\ mainpc[1] \in {"listen", "serving"}
    /\ mainpc' = <<"shutdown", "">>
    /\ UNCHANGED <<loadEN, loadRU, globals, mu, inflight, vad, workload, pc,
                   locals, resp, history, normalized, disk, lifecycle, wavio,
                   confio>>

\* a second of srv.Shutdown's wait passes
Tick ==
    /\ At("shutdown")
    /\ waited < ShutdownTimeoutS
    /\ waited' = waited + 1
    /\ UNCHANGED <<startup, globals, mu, inflight, vad, workload, pc, locals,
                   resp, history, normalized, disk, released, shutErr, wavio,
                   confio>>

\* no handler is running
Quiet == \A r \in Reqs : pc[r] \in {"idle", "done"}

\* (variant) srv.Shutdown returns at once, whatever is in flight
ShutdownNoWait ==
    /\ At("shutdown")
    /\ shutErr' = IF Quiet THEN "nil" ELSE "deadline"
    /\ mainpc' = <<"release", "VAD">>
    /\ UNCHANGED <<loadEN, loadRU, globals, mu, inflight, vad, workload, pc,
                   locals, resp, history, normalized, disk, released, waited,
                   wavio, confio>>

\* main.go 634-639: srv.Shutdown returns nil once no connection is active,
\* or the context's error once its 10 seconds are over; the error is only
\* logged and main returns
Shutdown ==
    /\ At("shutdown")
    /\ \/ Quiet /\ shutErr' = "nil"
       \/ waited = ShutdownTimeoutS /\ shutErr' = "deadline"
    /\ mainpc' = <<"release", "VAD">>
    /\ UNCHANGED <<loadEN, loadRU, globals, mu, inflight, vad, workload, pc,
                   locals, resp, history, normalized, disk, released, waited,
                   wavio, confio>>

\* the global handle of engine e is non-nil
Handle(e) ==
    CASE e = "EN" -> recognizerEN
      [] e = "RU" -> recognizerRU
      [] e = "VAD" -> vadDetector

\* the deferred call that runs after the one for engine e
AfterRelease(e) ==
    CASE e = "VAD" -> <<"release", "RU">>
      [] e = "RU" -> <<"release", "EN">>
      [] e = "EN" -> <<"exited", "">>

\* main returns and its deferred calls run, last registered first (main.go
\* 591, 573, 570): DeleteVoiceActivityDetector, DeleteOfflineRecognizer for
\* RU and for EN, each registered only for a non-nil handle; then the
\* process exits
Release(e) ==
    /\ mainpc = <<"release", e>>
    /\ released' = IF Handle(e) THEN released \cup {e} ELSE released
    /\ mainpc' = AfterRelease(e)
    /\ UNCHANGED <<loadEN, loadRU, globals, mu, inflight, vad, workload, pc,
                   locals, resp, history, normalized, disk, waited, shutErr,
                   wavio, confio>>

\* the positions of applyVADChunked at which the next step is a call of the
\* VAD engine
VadCalls == {"vad_feed", "vad_flush", "vad_drain", "vad_reset"}

\* the native engine a request is inside of, if any: the VAD engine between
\* Reset/AcceptWaveform and Reset, a recognizer between NewOfflineStream and
\* DeleteOfflineStream
Inside(r) ==
    (IF pc[r] \in VadCalls THEN {"VAD"} ELSE {})
        \cup {e \in Engines : r \in inflight[e]}

\* a request inside an engine main has deleted works on freed memory; one
\* outcome of that is a fault that kills the process
Crash(r) ==
    /\ Running
    /\ Inside(r) \cap released # {}
    /\ mainpc' = <<"fatal", "crash">>
    /\ UNCHANGED <<loadEN, loadRU, globals, mu, inflight, vad, workload, pc,
                   locals, resp, history, normalized, disk, lifecycle, wavio,
                   confio>>

\* ------------------------------------------------------------ specifications
\* state right after main.go 511-565: configuration loaded, the loader
\* goroutines started (RU only if its encoder file exists), nothing loaded
InitProcess ==
    /\ mainpc = <<"wait", "">>
    /\ loadEN = "running"
    /\ loadRU \in {"absent", "running"}
    /\ recognizerEN = FALSE
    /\ recognizerRU = FALSE
    /\ vadDetector = FALSE
    /\ cfg = [VADMinDurationS |-> DefaultVADMinDurationS,
              MaxAudioDurationS |-> DefaultMaxAudioDurationS]
    /\ mu = [l \in Locks |-> {}]
    /\ inflight = [e \in Engines |-> {}]
    /\ vad = VadClean
    /\ pc = [r \in Reqs |-> "idle"]
    /\ useVAD = [r \in Reqs |-> FALSE]
    /\ chunks = [r \in Reqs |-> <<>>]
    /\ current = [r \in Reqs |-> EmptyChunk]
    /\ ci = [r \in Reqs |-> 0]
    /\ parts = [r \in Reqs |-> <<>>]
    /\ text = [r \in Reqs |-> EmptyText]
    /\ speechMs = [r \in Reqs |-> 0]
    /\ resp = [r \in Reqs |-> NoResp]
    /\ disk = [p \in Paths |-> IF p[1] = "in" THEN "original" ELSE "absent"]
    /\ cleanup = [r \in Reqs |-> NoPath]
    /\ ffmpegRuns = {}
    /\ writer = [p \in Paths |-> 0]
    /\ heard = [r \in Reqs |-> <<>>]
    /\ drained = [r \in Reqs |-> <<>>]
    /\ decoded = [r \in Reqs |-> <<>>]
    /\ locked = [r \in Reqs |-> {}]
    /\ released = {}
    /\ waited = 0
    /\ shutErr = ""

\* concurrent workload: every request goroutine gets a request
Init ==
    /\ InitProcess
    /\ arrivals = Reqs
    /\ req \in [Reqs -> ConcInputs]
    /\ vocab = ConcTexts
    /\ names = [r \in Reqs |-> {r}]
    /\ wavFile = NoWav
    /\ wavResult = NotLoaded
    /\ environ = NoEnviron
    /\ loaded = Configured(NoEnviron)

\* one request, any input, engines that return nothing, prose or a loop
InitReq ==
    /\ InitProcess
    /\ arrivals = {1}
    /\ \E i \in AllInputs : req = [r \in Reqs |-> i]
    /\ vocab = ConcTexts
    /\ names = [r \in Reqs |-> {r}]
    /\ wavFile = NoWav
    /\ wavResult = NotLoaded
    /\ environ = NoEnviron
    /\ loaded = Configured(NoEnviron)

\* one request, any input, engines that return prose
InitGates ==
    /\ InitProcess
    /\ arrivals = {1}
    /\ \E i \in AllInputs : req = [r \in Reqs |-> i]
    /\ vocab = {Text(1, 99, 99, 85)}
    /\ names = [r \in Reqs |-> {r}]
    /\ wavFile = NoWav
    /\ wavResult = NotLoaded
    /\ environ = NoEnviron
    /\ loaded = Configured(NoEnviron)

\* one request that is transcribed, whatever the engines return: its audio
\* passes every gate and is segmented if the VAD engine is loaded (37.5 s or
\* 300 s of canonical audio in either language)
InitTexts ==
    /\ InitProcess
    /\ arrivals = {1}
    /\ \E l \in {"en", "ru"}, n \in {600000, 4800000} :
          req = [r \in Reqs |->
                    Request(l, "unset", Audio(".wav", TRUE, TRUE, SampleHz, n))]
    /\ vocab = EngineTexts
    /\ names = [r \in Reqs |-> {r}]
    /\ wavFile = NoWav
    /\ wavResult = NotLoaded
    /\ environ = NoEnviron
    /\ loaded = Configured(NoEnviron)

\* two concurrent requests on audio long enough for several chunks
InitPair ==
    /\ InitProcess
    /\ arrivals = {1, 2}
    /\ req \in [Reqs -> PairInputs]
    /\ \A r \in Reqs \ arrivals : req[r] = req[1]
    /\ vocab = PairTexts
    /\ names = [r \in Reqs |-> {r}]
    /\ wavFile = NoWav
    /\ wavResult = NotLoaded
    /\ environ = NoEnviron
    /\ loaded = Configured(NoEnviron)

Startup ==
    \/ LoadENDone
    \/ LoadRUDone
    \/ WgWait
    \/ LoadVAD
    \/ ListenAndServe
    \/ ListenFails

Warmup ==
    \E e \in Engines :
        \/ WarmupLock(e)
        \/ WarmupAccept(e)
        \/ WarmupDecode(e)
        \/ WarmupDelete(e)
        \/ WarmupUnlock(e)

Gates(r) ==
    \/ Start(r)
    \/ Normalize(r)
    \/ LoadWav(r)
    \/ Validate(r)
    \/ DecideVAD(r)

Segmentation(r) ==
    \/ VadLock(r)
    \/ VadFeed(r)
    \/ VadFlush(r)
    \/ VadDrain(r)
    \/ VadDrainEnd(r)
    \/ VadReset(r)
    \/ VadUnlock(r)
    \/ AfterVAD(r)

Recognition(r) ==
    \/ RecLock(r)
    \/ RecAccept(r)
    \/ RecDecode(r)
    \/ RecResult(r)
    \/ RecUnlock(r)
    \/ Filter(r)
    \/ Finish(r)

Next ==
    \/ Startup
    \/ Warmup
    \/ \E r \in Reqs : Gates(r) \/ Segmentation(r) \/ Recognition(r)

Spec == Init /\ [][Next]_vars

SpecReq == InitReq /\ [][Next]_vars

SpecGates == InitGates /\ [][Next]_vars

SpecTexts == InitTexts /\ [][Next]_vars

SpecPair == InitPair /\ [][Next]_vars

\* two concurrent requests on audio long enough for several chunks, and
\* engines that return prose
InitLocks ==
    /\ InitProcess
    /\ arrivals = {1, 2}
    /\ req \in [Reqs -> PairInputs]
    /\ \A r \in Reqs \ arrivals : req[r] = req[1]
    /\ vocab = {Text(1, 99, 99, 85)}
    /\ names = [r \in Reqs |-> {r}]
    /\ wavFile = NoWav
    /\ wavResult = NotLoaded
    /\ environ = NoEnviron
    /\ loaded = Configured(NoEnviron)

SpecLocks == InitLocks /\ [][Next]_vars

\* the requests of the temporary-file workload: 10 s of audio in a format
\* ffmpeg has to convert, which it does or fails to do
TmpInputs ==
    {Request("en", "unset", Audio(".mp3", ok, TRUE, SampleHz, 160000)) :
        ok \in BOOLEAN}

\* two concurrent requests that go through ffmpeg; the uuid prefix of each
\* is any of the values told apart
InitTmp ==
    /\ InitProcess
    /\ arrivals = {1, 2}
    /\ req \in [Reqs -> TmpInputs]
    /\ \A r \in Reqs \ arrivals : req[r] = req[1]
    /\ vocab = {Text(1, 99, 99, 85)}
    /\ names = [r \in Reqs |-> Uuids]
    /\ wavFile = NoWav
    /\ wavResult = NotLoaded
    /\ environ = NoEnviron
    /\ loaded = Configured(NoEnviron)

SpecTmp == InitTmp /\ [][Next]_vars

\* loadWav alone, run once on a file
InitWav ==
    /\ InitProcess
    /\ loadRU = "absent"
    /\ arrivals = {}
    /\ req = [r \in Reqs |->
                Request("en", "unset", Audio(".wav", TRUE, TRUE, SampleHz, 160000))]
    /\ vocab = {}
    /\ names = [r \in Reqs |-> {r}]
    /\ wavFile \in WavFiles
    /\ wavResult = NotLoaded
    /\ environ = NoEnviron
    /\ loaded = Configured(NoEnviron)

\* loadWav is called on the file and returns
CallLoadWav ==
    /\ wavResult = NotLoaded
    /\ environ = NoEnviron
    /\ loaded = Configured(NoEnviron)
    /\ wavResult' = loadWav(wavFile)
    /\ UNCHANGED <<startup, globals, mu, inflight, vad, workload, pc, locals,
                   resp, history, normalized, disk, lifecycle, wavFile, confio>>

NextWav == CallLoadWav

SpecWav == InitWav /\ [][NextWav]_vars

\* loadConfig alone, run once in an environment
InitConfig ==
    /\ InitProcess
    /\ loadRU = "absent"
    /\ arrivals = {}
    /\ req = [r \in Reqs |->
                Request("en", "unset", Audio(".wav", TRUE, TRUE, SampleHz, 160000))]
    /\ vocab = {}
    /\ names = [r \in Reqs |-> {r}]
    /\ wavFile = NoWav
    /\ wavResult = NotLoaded
    /\ \E n \in [NumberNames -> NumberValues], t \in [StringNames -> StringValues] :
          environ = [v \in NumberNames \cup StringNames |->
                        IF v \in NumberNames THEN n[v] ELSE t[v]]
    /\ loaded = [done |-> FALSE, cfg |-> loadConfig(NoEnviron)]

\* main.go 511: loadConfig is called and returns
CallLoadConfig ==
    /\ ~loaded.done
    /\ loaded' = Configured(environ)
    /\ UNCHANGED <<startup, globals, mu, inflight, vad, workload, pc, locals,
                   resp, history, normalized, disk, lifecycle, wavio, environ>>

SpecConfig == InitConfig /\ [][CallLoadConfig]_vars

\* two concurrent requests in a process that lives on
InitFair ==
    /\ InitProcess
    /\ arrivals = {1, 2}
    /\ req \in [Reqs -> ConcInputs]
    /\ \A r \in Reqs \ arrivals : req[r] = req[1]
    /\ vocab = {Text(1, 99, 99, 85), Text(0, 150, 150, 14)}
    /\ names = [r \in Reqs |-> {r}]
    /\ wavFile = NoWav
    /\ wavResult = NotLoaded
    /\ environ = NoEnviron
    /\ loaded = Configured(NoEnviron)

\* any step of the handler goroutine of request r
Steps(r) == Gates(r) \/ Segmentation(r) \/ Recognition(r)

\* The scheduler runs every goroutine that can take a step, and every call
\* of ffmpeg and of the engines returns (weak fairness on each goroutine's
\* steps). A sync.Mutex hands the lock to a goroutine that has waited for
\* more than a millisecond (starvation mode), so a goroutine that keeps
\* asking for a lock gets it (strong fairness on Lock).
Fairness ==
    /\ WF_vars(Startup)
    /\ WF_vars(Warmup)
    /\ \A r \in Reqs :
          /\ WF_vars(Steps(r))
          /\ SF_vars(VadLock(r))
          /\ SF_vars(RecLock(r))

SpecFair == InitFair /\ [][Next]_vars /\ Fairness

\* the process from start to exit: two requests, a termination signal at
\* any time, a listener that may fail
InitLife ==
    /\ InitProcess
    /\ arrivals = {1, 2}
    /\ req \in [Reqs -> ConcInputs]
    /\ \A r \in Reqs \ arrivals : req[r] = req[1]
    /\ vocab = {Text(1, 99, 99, 85)}
    /\ names = [r \in Reqs |-> {r}]
    /\ wavFile = NoWav
    /\ wavResult = NotLoaded
    /\ environ = NoEnviron
    /\ loaded = Configured(NoEnviron)

Lifecycle ==
    \/ ServeFails
    \/ Signal
    \/ Tick
    \/ Shutdown
    \/ \E e \in Locks : Release(e)
    \/ \E r \in Reqs : Crash(r)

NextLife ==
    \/ Startup
    \/ Warmup
    \/ Lifecycle
    \/ \E r \in Reqs : Gates(r) \/ Segmentation(r) \/ Recognition(r)

SpecLife == InitLife /\ [][NextLife]_vars


\* ------------------------------------------------------------------ claims
\* positions of a request between muVAD.Lock() and the deferred Unlock()
VadSection == {"vad_feed", "vad_flush", "vad_drain", "vad_reset", "vad_unlock"}

\* the engine whose handle and mutex belong to a language code
OwnEngine(lang) == IF lang = "ru" THEN "RU" ELSE "EN"

\* C1: at most one decode call is in flight on each engine at any time, and
\* every submit / decode / get-result on an engine, by a request or by the
\* warmup, happens while the caller holds that engine's own lock.
C1_OneDecodePerEngine ==
    /\ \A e \in Engines :
          /\ Cardinality(inflight[e]) <= 1
          /\ inflight[e] \subseteq mu[e]
    /\ \A r \in Reqs :
          /\ pc[r] \in {"rec_accept", "rec_decode", "rec_result"}
                => r \in mu[OwnEngine(req[r].lang)]
          /\ \A i \in 1..Len(decoded[r]) : decoded[r][i].engine \in decoded[r][i].held
    /\ \A e \in Engines :
          mainpc \in {<<"accept", e>>, <<"decode", e>>, <<"delete", e>>} => 0 \in mu[e]

\* C1 witness: a decode is in flight on an engine while another request of
\* the same language waits for that engine's lock.
C1_Witness ==
    \E r, q \in Reqs :
        /\ r # q
        /\ pc[r] = "rec_result"
        /\ r \in inflight[OwnEngine(req[r].lang)]
        /\ pc[q] = "rec_lock"
        /\ OwnEngine(req[q].lang) = OwnEngine(req[r].lang)

\* C2: a request never acquires the other language's lock, and a request
\* about to lock its engine can do so whenever its own language's lock is
\* free, whatever the state of the other engine's lock and of the VAD lock.
C2_LanguagesIndependent ==
    \A r \in Reqs :
        /\ req[r].lang = "ru" => "EN" \notin locked[r]
        /\ req[r].lang # "ru" => "RU" \notin locked[r]
        /\ (pc[r] = "rec_lock" /\ mu[OwnEngine(req[r].lang)] = {}) => ENABLED RecLock(r)

\* C2 witness: an English decode and a Russian decode in flight at once.
C2_Witness ==
    \E r, q \in Reqs :
        /\ req[r].lang = "ru" /\ pc[r] = "rec_result" /\ r \in inflight["RU"]
        /\ req[q].lang # "ru" /\ pc[q] = "rec_result" /\ q \in inflight["EN"]

\* C3: when a request has just acquired the VAD lock and is about to feed its
\* first window, the VAD engine holds nothing of an earlier request (no
\* queued segment, no open segment, no partial window, no window count), and
\* every segment a request drains comes from windows it fed itself.
C3_VadResetBetweenRequests ==
    \A r \in Reqs :
        /\ pc[r] = "vad_feed" => vad = VadClean
        /\ \A i \in 1..Len(drained[r]) : drained[r][i].by = r
        /\ pc[r] \in VadSection =>
              \A i \in 1..Len(vad.queue) : vad.queue[i].by = r

\* C3 witness: a request is about to feed its first window after another
\* request fed, drained segments and left the VAD section.
C3_Witness ==
    \E r, q \in Reqs :
        /\ r # q
        /\ pc[r] = "vad_feed"
        /\ Len(drained[q]) > 0
        /\ pc[q] \notin VadSection

\* C4: at most one request at a time is between its first window feed and
\* the release of the VAD lock, whatever the languages, and it holds muVAD.
C4_OneRequestInVad ==
    /\ Cardinality({r \in Reqs : pc[r] \in VadSection}) <= 1
    /\ \A r \in Reqs : pc[r] \in VadSection => mu["VAD"] = {r}

\* C4 witness: a request of one language is draining the VAD engine while a
\* request of the other language waits for the VAD lock.
C4_Witness ==
    \E r, q \in Reqs :
        /\ req[r].lang # req[q].lang
        /\ pc[r] = "vad_drain"
        /\ vad.queue # <<>>
        /\ pc[q] = "vad_lock"


\* applyVADChunked has built all its chunks (the drain loop is over)
ChunksBuilt(r) == useVAD[r] /\ pc[r] \notin {"vad_lock", "vad_feed", "vad_flush", "vad_drain"}

\* applyVADChunked has returned
VadReturned(r) == useVAD[r] /\ pc[r] \notin ({"vad_lock"} \cup VadSection)

C7_SilenceIsEmptySuccess ==
    \A r \in Reqs :
        (VadReturned(r) /\ drained[r] = <<>>) =>
            /\ pc[r] \in {"vad_done", "done"}
            /\ decoded[r] = <<>>
            /\ locked[r] \cap Engines = {}
            /\ \A e \in Engines : r \notin inflight[e]
            /\ pc[r] = "done" =>
                  resp[r] = [done |-> TRUE, Text |-> <<>>, SpeechMs |-> 0,
                             Error |-> "", Status |-> 200]

\* C7 witness: a request whose segmentation found nothing has returned.
C7_Witness ==
    \E r \in Reqs :
        /\ useVAD[r]
        /\ "VAD" \in locked[r]
        /\ drained[r] = <<>>
        /\ pc[r] = "done"

\* a ru request arriving at a server whose RU engine was never loaded
RuUnavailable(r) == req[r].lang = "ru" /\ ~recognizerRU /\ pc[r] # "idle"

NeverDecodes(r) ==
    /\ decoded[r] = <<>>
    /\ locked[r] \cap Engines = {}
    /\ \A e \in Engines : r \notin inflight[e]

\* the audio passes normalization, WAV decoding, the sample-rate check and
\* the duration ceiling
PassesAudioGates(a) ==
    /\ ToLower(a.ext) = ".wav" \/ a.ffmpegOk
    /\ a.wavOk
    /\ a.rate = 16000
    /\ a.n <= cfg.MaxAudioDurationS * 16000

\* C8 as stated: every ru request when the RU engine was never loaded
\* returns EngineUnavailable and never attempts a decode call.
C8_Original ==
    \A r \in Reqs :
        RuUnavailable(r) =>
            /\ NeverDecodes(r)
            /\ pc[r] = "done" =>
                  resp[r].Error = "RU model not loaded" /\ resp[r].Status = 503

\* C8 amended: a ru request when the RU engine was never loaded never
\* attempts a decode call (no engine lock, no buffer submitted); it returns
\* EngineUnavailable (status 503) if its audio passes the earlier gates, and
\* the error of the first failing gate otherwise.
C8_EngineUnavailable ==
    \A r \in Reqs :
        RuUnavailable(r) =>
            /\ NeverDecodes(r)
            /\ "VAD" \notin locked[r]
            /\ pc[r] \in {"normalize", "loadwav", "validate", "done"}
            /\ pc[r] = "done" =>
                  /\ resp[r].Error # ""
                  /\ resp[r].Text = <<>>
                  /\ PassesAudioGates(req[r].audio) <=>
                        (resp[r].Error = "RU model not loaded" /\ resp[r].Status = 503)

\* C8 witness: a ru request with good audio was answered EngineUnavailable.
C8_Witness ==
    \E r \in Reqs :
        /\ RuUnavailable(r)
        /\ PassesAudioGates(req[r].audio)
        /\ pc[r] = "done"
        /\ resp[r].Status = 503

\* C9: the code ru selects the RU engine and its lock, every other code
\* (the empty one included) the EN engine and its lock; every chunk of a
\* request is decoded by that one engine, under that one lock.
C9_EngineByLanguage ==
    \A r \in Reqs :
        /\ \A i \in 1..Len(decoded[r]) :
              /\ decoded[r][i].engine = (IF req[r].lang = "ru" THEN "RU" ELSE "EN")
              /\ decoded[r][i].held = {decoded[r][i].engine}
        /\ \A e \in Engines :
              r \in inflight[e] => e = (IF req[r].lang = "ru" THEN "RU" ELSE "EN")

\* C9 witness: a request with the empty language code has had two chunks
\* decoded.
C9_Witness ==
    \E r \in Reqs :
        /\ req[r].lang = ""
        /\ Len(decoded[r]) = 2
        /\ pc[r] = "done"

\* the request got past every gate (it reached the VAD decision)
Decided(r) ==
    /\ pc[r] \notin {"idle", "normalize", "loadwav", "validate", "decide"}
    /\ pc[r] = "done" => resp[r].Error = ""

\* C10: segmentation runs exactly when the VAD engine is loaded and (the
\* override is true, or it is unset and the duration is at least the
\* configured minimum); false suppresses it whatever the duration; without
\* a VAD engine it never runs and a force-on override is not an error.
C10_VadDecision ==
    \A r \in Reqs :
        LET expected ==
                /\ vadDetector
                /\ \/ req[r].override = "true"
                   \/ /\ req[r].override = "unset"
                      /\ req[r].audio.n >= cfg.VADMinDurationS * 16000
        IN  /\ "VAD" \in locked[r] => expected /\ Decided(r)
            /\ (Decided(r) /\ pc[r] # "vad_lock") => ("VAD" \in locked[r] <=> expected)
            /\ (pc[r] = "done" /\ PassesAudioGates(req[r].audio)
                 /\ (req[r].lang = "ru" => recognizerRU))
                  => (resp[r].Error = "" /\ resp[r].Status = 200)

\* C10 witness: with the override unset and audio of exactly the minimum
\* duration, the request is segmenting.
C10_Witness ==
    \E r \in Reqs :
        /\ req[r].override = "unset"
        /\ req[r].audio.n = cfg.VADMinDurationS * 16000
        /\ pc[r] = "vad_feed"

\* the audio fails one of the first three gates: normalization, WAV
\* decoding, sample rate
FailsHardGate(a) ==
    \/ ToLower(a.ext) # ".wav" /\ ~a.ffmpegOk
    \/ ~a.wavOk
    \/ a.rate # 16000

\* the error and status of the first of the three gates the audio fails
HardGateError(a) ==
    IF ToLower(a.ext) # ".wav" /\ ~a.ffmpegOk THEN <<"ffmpeg", 422>>
    ELSE IF ~a.wavOk THEN <<"load wav", 400>>
    ELSE <<"unsupported sample rate", 400>>

\* C11: when normalization fails, WAV decoding fails or the sample rate is
\* not 16000, transcribeFile returns a non-empty error (that of the failing
\* gate) and performs no later step: it never takes the VAD lock, feeds no
\* window, drains nothing, takes no engine lock and makes no decode call.
C11_HardGates ==
    \A r \in Reqs :
        (pc[r] # "idle" /\ FailsHardGate(req[r].audio)) =>
            /\ pc[r] \in {"normalize", "loadwav", "validate", "done"}
            /\ locked[r] = {}
            /\ drained[r] = <<>>
            /\ vad = VadClean
            /\ chunks[r] = <<>>
            /\ NeverDecodes(r)
            /\ pc[r] = "done" =>
                  /\ resp[r].Error # ""
                  /\ <<resp[r].Error, resp[r].Status>> = HardGateError(req[r].audio)
                  /\ resp[r].Text = <<>>
                  /\ resp[r].SpeechMs = 0

\* C11 witness: a request whose WAV file has another sample rate was
\* answered with the sample-rate error on a server with a loaded VAD engine.
C11_Witness ==
    \E r \in Reqs :
        /\ req[r].audio.wavOk
        /\ req[r].audio.rate # 16000
        /\ vadDetector
        /\ pc[r] = "done"
        /\ resp[r].Error = "unsupported sample rate"

\* C12: a request is rejected with AudioTooLong (status 400) exactly when
\* its duration is strictly greater than the ceiling, so audio of exactly the
\* ceiling is accepted. The duration is the sample count / 16000 of audio
\* that was decoded at 16000 Hz, which is where the code computes it; no
\* other request is rejected with AudioTooLong; and audio over the ceiling
\* is rejected before any VAD or recognition-engine work.
C12_DurationCeiling ==
    \A r \in Reqs :
        /\ (pc[r] = "done" /\ ~FailsHardGate(req[r].audio)) =>
              ((resp[r].Error = "audio too long" /\ resp[r].Status = 400)
                  <=> req[r].audio.n > cfg.MaxAudioDurationS * 16000)
        /\ (pc[r] = "done" /\ resp[r].Error = "audio too long") =>
              (~FailsHardGate(req[r].audio)
                  /\ req[r].audio.n > cfg.MaxAudioDurationS * 16000)
        /\ (pc[r] # "idle" /\ req[r].audio.n > cfg.MaxAudioDurationS * 16000) =>
              /\ pc[r] \in {"normalize", "loadwav", "validate", "done"}
              /\ locked[r] = {}
              /\ vad = VadClean
              /\ NeverDecodes(r)

\* C12 witness: audio of exactly the ceiling (300 s, 4800000 samples) was
\* accepted and transcribed.
C12_Witness ==
    \E r \in Reqs :
        /\ req[r].audio.n = cfg.MaxAudioDurationS * 16000
        /\ pc[r] = "done"
        /\ resp[r].Status = 200
        /\ Len(decoded[r]) > 0

\* C13: when segmentation is skipped the whole decoded buffer is the single
\* chunk: exactly one decode call is made, and its input is the complete
\* buffer (all n samples, not cut, not segmented); the VAD engine is not
\* touched.
C13_WholeBufferOnce ==
    \A r \in Reqs :
        (Decided(r) /\ ~useVAD[r]) =>
            /\ chunks[r] = <<[len |-> req[r].audio.n, segs |-> <<>>]>>
            /\ "VAD" \notin locked[r]
            /\ drained[r] = <<>>
            /\ Len(decoded[r]) <= 1
            /\ \A i \in 1..Len(decoded[r]) :
                  decoded[r][i].chunk = [len |-> req[r].audio.n, segs |-> <<>>]
            /\ pc[r] \in {"rec_result", "rec_unlock", "filter", "finish", "done"}
                  => Len(decoded[r]) = 1

\* C13 witness: with a loaded VAD engine and the override false, 300 s of
\* audio were decoded in one call and the request returned.
C13_Witness ==
    \E r \in Reqs :
        /\ vadDetector
        /\ req[r].override = "false"
        /\ req[r].audio.n = 4800000
        /\ pc[r] = "done"
        /\ Len(decoded[r]) = 1
        /\ decoded[r][1].chunk.len = 4800000

\* C18: the speech duration is populated only if segmentation ran: it is 0
\* on every response of a request that skipped segmentation or failed, and
\* when segmentation ran and produced chunks it is the total number of
\* samples over all chunks divided by 16.
C18_SpeechMs ==
    \A r \in Reqs :
        pc[r] = "done" =>
            /\ resp[r].SpeechMs > 0 => (useVAD[r] /\ "VAD" \in locked[r])
            /\ (~useVAD[r] \/ resp[r].Error # "") => resp[r].SpeechMs = 0
            /\ (useVAD[r] /\ chunks[r] # <<>>) =>
                  /\ resp[r].SpeechMs * 16 = SumLen(chunks[r])
                  /\ resp[r].SpeechMs > 0

\* C18 witness: a segmented request with two chunks returned their summed
\* duration.
C18_Witness ==
    \E r \in Reqs :
        /\ pc[r] = "done"
        /\ useVAD[r]
        /\ Len(chunks[r]) = 2
        /\ resp[r].SpeechMs = (chunks[r][1].len + chunks[r][2].len) \div 16

\* the score recorded for a chunk text is strictly greater than 2.4
Over24(ratio) == ratio[1] * 10 > 24 * ratio[2]

\* the chunks of r whose text, once trimmed, is non-empty and not suppressed
Surviving(r) ==
    {k \in 1..Len(heard[r]) : heard[r][k].raw.len > 0 /\ ~Over24(heard[r][k].ratio)}

\* transcribeFile returned from its last statement (the decode loop ran)
Transcribed(r) == pc[r] = "done" /\ resp[r].Error = "" /\ chunks[r] # <<>>

\* C14: the final text is the chunks' trimmed, unsuppressed, non-empty texts
\* in chunk order with exactly one space between neighbours: a dropped chunk
\* contributes nothing, so there is no leading, trailing or doubled
\* separator; the k-th decode call is on chunk k, so chunk k is decoded
\* before chunk k+1.
C14_JoinedInOrder ==
    \A r \in Reqs :
        /\ \A k \in 1..Len(decoded[r]) :
              decoded[r][k].index = k /\ decoded[r][k].chunk = chunks[r][k]
        /\ \A k \in 1..Len(heard[r]) : heard[r][k].chunk = k
        /\ Len(heard[r]) \in {Len(decoded[r]), Len(decoded[r]) - 1}
        /\ Transcribed(r) =>
              LET T == resp[r].Text
                  odd == {i \in 1..Len(T) : i % 2 = 1}
              IN  /\ Len(heard[r]) = Len(chunks[r])
                  /\ Len(T) = IF Surviving(r) = {} THEN 0
                              ELSE 2 * Cardinality(Surviving(r)) - 1
                  /\ \A i \in 1..Len(T) :
                        IF i % 2 = 0
                        THEN T[i] = [chunk |-> 0, text |-> [pad |-> 1, chars |-> 0,
                                                           len |-> 0, zlen |-> 8]]
                        ELSE /\ T[i].chunk \in Surviving(r)
                             /\ T[i].text.pad = 0
                             /\ T[i].text.len > 0
                             /\ T[i].text = [heard[r][T[i].chunk].raw EXCEPT !.pad = 0]
                  /\ \A i, j \in odd : i < j => T[i].chunk < T[j].chunk

\* C14 witness: two chunks, the first returned with white space around it,
\* both kept: the text is the two trimmed texts with one separator.
C14_Witness ==
    \E r \in Reqs :
        /\ Transcribed(r)
        /\ Len(heard[r]) = 2
        /\ heard[r][1].raw.pad > 0
        /\ Len(resp[r].Text) = 3
        /\ resp[r].Text[1].chunk = 1
        /\ resp[r].Text[3].chunk = 2

\* C19 as stated: a text shorter than 10 characters scores 0 and, whatever
\* its content, is not suppressed: if it is not empty it is kept.
C19_ShortTextsScoreZero ==
    \A r \in Reqs :
        \A k \in 1..Len(heard[r]) :
            heard[r][k].t.chars < 10 =>
                /\ heard[r][k].ratio = <<0, 1>>
                /\ heard[r][k].t.len > 0 => heard[r][k].kept

\* C20: a chunk text is discarded exactly when its score is strictly
\* greater than 2.4 (a score of exactly 2.4 keeps it) or it is empty;
\* filtering never makes the request fail: the loop goes on to the next
\* chunk, the request returns status 200 without error, and every other
\* chunk's text is in the final text.
C20_SuppressionThreshold ==
    \A r \in Reqs :
        /\ \A k \in 1..Len(heard[r]) :
              LET h == heard[r][k]
              IN  /\ h.kept <=> (~Over24(h.ratio) /\ h.t.len > 0)
                  /\ h.kept <=> (\E i \in 1..Len(parts[r]) :
                                    parts[r][i] = [chunk |-> k, text |-> h.t])
        /\ (pc[r] = "done" /\ heard[r] # <<>>) =>
              /\ resp[r].Status = 200
              /\ resp[r].Error = ""
              /\ Len(heard[r]) = Len(chunks[r])
              /\ \A k \in 1..Len(heard[r]) :
                    heard[r][k].kept <=>
                        (\E i \in 1..Len(resp[r].Text) : resp[r].Text[i].chunk = k)

\* C20 witness: of two chunks the first scored above 2.4 and was dropped,
\* the second scored exactly 2.4 and is the whole final text.
C20_Witness ==
    \E r \in Reqs :
        /\ pc[r] = "done"
        /\ Len(heard[r]) = 2
        /\ Over24(heard[r][1].ratio)
        /\ heard[r][2].ratio[1] * 10 = 24 * heard[r][2].ratio[2]
        /\ Len(resp[r].Text) = 1
        /\ resp[r].Text[1].chunk = 2

\* C16 as stated: by the time transcribeFile returns, on every exit path,
\* the temporary file of normalization does not exist (it was never written
\* or it was removed), also when ffmpeg failed after creating it.
C16_TempFileRemoved ==
    \A r \in Reqs : pc[r] = "done" => disk[<<"tmp", r>>] = "absent"

\* C17: when the input path has the extension .wav, in any letter case, it
\* is used as it is: ffmpeg is never run for the request, no temporary file
\* is ever written, and the input file is neither modified nor removed, at
\* any point of the request and on any exit path.
C17_WavPassthrough ==
    \A r \in Reqs :
        (req[r].audio.ext \in {".wav", ".WAV"}) =>
            /\ r \notin ffmpegRuns
            /\ disk[<<"tmp", r>>] = "absent"
            /\ disk[<<"in", r>>] = "original"
            /\ cleanup[r] = <<"", 0>>

\* C17 witness: a request on an upper-case .WAV path was transcribed and has
\* returned; its input file is as it was.
C17_Witness ==
    \E r \in Reqs :
        /\ req[r].audio.ext = ".WAV"
        /\ pc[r] = "done"
        /\ resp[r].Status = 200
        /\ Len(decoded[r]) > 0
        /\ disk[<<"in", r>>] = "original"

\* a chunk's record in the decode loop says its text was kept
WasKept(h) == h.kept

\* the part the decode loop makes of a kept chunk
PartOf(h) == [chunk |-> h.chunk, text |-> h.t]

\* the final text a request running alone makes of the texts h its chunks
\* were transcribed to: the kept ones, in order, one separator in between
AloneText(h) ==
    LET keptOnes == SelectSeq(h, WasKept)
    IN  Join([i \in 1..Len(keptOnes) |-> PartOf(keptOnes[i])], Sep)

\* C15: under any interleaving of concurrent requests, each request's
\* chunks are recognized in chunk order (its k-th decode call is on its own
\* chunk k, built from segments of its own audio, and the engine works on
\* exactly that buffer, never on a buffer another caller submitted), its
\* parts are its own chunks' texts in chunk order, and its final text is
\* what those texts give when the request runs alone.
C15_OrderUnderInterleaving ==
    \A r \in Reqs :
        /\ \A k \in 1..Len(decoded[r]) :
              /\ decoded[r][k].index = k
              /\ decoded[r][k].chunk = chunks[r][k]
              /\ decoded[r][k].input = [by |-> r, index |-> k]
        /\ \A k \in 1..Len(chunks[r]) :
              \A i \in 1..Len(chunks[r][k].segs) : chunks[r][k].segs[i].by = r
        /\ \A k \in 1..Len(heard[r]) : heard[r][k].chunk = k
        /\ \A i \in 1..Len(parts[r]) :
              /\ parts[r][i].chunk \in 1..Len(heard[r])
              /\ parts[r][i].text = heard[r][parts[r][i].chunk].t
              /\ \A j \in 1..Len(parts[r]) :
                    i < j => parts[r][i].chunk < parts[r][j].chunk
        /\ Transcribed(r) =>
              /\ Len(heard[r]) = Len(chunks[r])
              /\ resp[r].Text = AloneText(heard[r])

\* C15 witness: two requests of one language, each with two chunks, take
\* turns on the engine: one is in its second decode while the other, its
\* first chunk decoded, waits for the lock.
C15_Witness ==
    \E r, q \in Reqs :
        /\ r # q
        /\ req[r].lang = req[q].lang
        /\ Len(chunks[r]) = 2 /\ Len(chunks[q]) = 2
        /\ Len(decoded[r]) = 2 /\ pc[r] = "rec_result"
        /\ Len(heard[q]) = 1 /\ pc[q] = "rec_lock"

\* C24: the EN and the RU loader run concurrently (while both are loading,
\* either may finish first), and the VAD load, the warmup decode and every
\* request come only after both load attempts have finished: no request
\* and no warmup step sees a handle that is still being assigned.
C24_LoadBeforeServe ==
    /\ (loadEN = "running" /\ loadRU = "running") =>
          (ENABLED LoadENDone /\ ENABLED LoadRUDone)
    /\ (mainpc[1] \in {"vad", "lock", "accept", "decode", "delete", "unlock",
                       "listen", "serving"})
          => (loadEN = "done" /\ loadRU \in {"absent", "done"})
    /\ \A r \in Reqs :
          pc[r] # "idle" => (loadEN = "done" /\ loadRU \in {"absent", "done"})
    /\ \A e \in Engines :
          inflight[e] # {} => (loadEN = "done" /\ loadRU \in {"absent", "done"})

\* C24 witness: a ru request is being decoded by the RU engine, whose load
\* ran next to the EN load and finished before the server served.
C24_Witness ==
    \E r \in Reqs :
        /\ req[r].lang = "ru"
        /\ pc[r] = "rec_decode"
        /\ loadRU = "done"
        /\ recognizerRU

\* C25 as stated: whenever the process has terminated abnormally, the cause
\* is a failure of model loading at startup.
C25_OnlyModelLoadingIsFatal ==
    Fatal => mainpc[2] = "load"

\* C25 amended: every failure of a request is a structured result (a
\* response with an error text and a status other than 200) and leaves the
\* process running; until main releases the engines at shutdown, a process
\* that terminated abnormally did so because the EN model failed to load
\* (before any request was served) or because ListenAndServe returned an
\* error other than ErrServerClosed (before any termination signal).
C25_FatalOnlyAtLoadOrListen ==
    /\ \A r \in Reqs :
          pc[r] = "done" =>
              /\ resp[r].done
              /\ resp[r].Status # StatusOK =>
                    (resp[r].Error # "" /\ resp[r].Text = <<>>)
    /\ (Fatal /\ released = {}) =>
          \/ /\ mainpc[2] = "load"
             /\ loadEN = "done" /\ ~recognizerEN
             /\ \A r \in Reqs : pc[r] = "idle"
          \/ /\ mainpc[2] = "listen"
             /\ shutErr = "" /\ waited = 0

\* C25 witness: a request has failed and was answered with an error while
\* the process went on; later the listener failed and the process died.
C25_Witness ==
    /\ Fatal /\ mainpc[2] = "listen"
    /\ \E r \in Reqs : pc[r] = "done" /\ resp[r].Status = StatusServiceUnavailable
    /\ \E r \in Reqs : pc[r] \notin {"idle", "done"}

\* the three engine handles
Handles == <<recognizerEN, recognizerRU, vadDetector>>

\* C26: the engine handles are assigned at startup only, before the warmup
\* and before any request; from the moment the server serves, through its
\* shutdown wait, no step of any request (nor any other step) changes the
\* EN, the RU or the VAD handle: loaded stays loaded, unloaded stays
\* unloaded.
C26_HandlesFixed ==
    [][ /\ (mainpc[1] \in {"serving", "shutdown"}) => UNCHANGED Handles
        /\ (\E r \in Reqs : pc'[r] # pc[r]) => UNCHANGED Handles
        /\ ~(UNCHANGED Handles) =>
              /\ mainpc[1] \in {"wait", "vad"}
              /\ \A r \in Reqs : pc[r] = "idle" ]_vars

\* C26 witness: the server is shutting down after it served an en request
\* that was decoded and a ru request that found the RU engine unloaded.
C26_Witness ==
    /\ mainpc[1] = "shutdown"
    /\ ~recognizerRU /\ recognizerEN /\ vadDetector
    /\ \E r \in Reqs : pc[r] = "done" /\ Len(decoded[r]) > 0 /\ VadReturned(r)
    /\ \E r \in Reqs : pc[r] = "done" /\ resp[r].Status = StatusServiceUnavailable

\* main has been told to stop: it is in srv.Shutdown or past it
Stopping == mainpc[1] \in {"shutdown", "release", "exited"}

\* what holds of the shutdown wait in every state
ShutdownWaited ==
    /\ waited <= ShutdownTimeoutS
    /\ At("shutdown") => (released = {} /\ shutErr = "")
    /\ released # {} =>
          (shutErr # "" /\ mainpc[1] \in {"release", "exited", "fatal"})
    /\ shutErr = "nil" => Quiet
    /\ shutErr = "deadline" => waited = ShutdownTimeoutS

\* C27: once the termination signal has arrived no new request is started;
\* srv.Shutdown waits for the in-flight requests and returns either when
\* none is left or when its 10 seconds are over, never later and never
\* earlier with a request still in flight; the engines (VAD, RU, EN) are
\* released only after that wait has ended.
C27_ShutdownOrder ==
    [][ /\ ShutdownWaited'
        /\ Stopping => \A r \in Reqs : pc[r] = "idle" => pc'[r] = "idle"
        /\ released' # released => (shutErr # "" /\ mainpc[1] = "release") ]_vars

\* C27 witness: the signal came while a request was in flight; Shutdown
\* waited some seconds, the request finished, Shutdown returned nil and the
\* three engines were released.
C27_Witness ==
    /\ At("exited")
    /\ shutErr = "nil" /\ waited \in 1..(ShutdownTimeoutS - 1)
    /\ released = {"EN", "RU", "VAD"}
    /\ \E r \in Reqs : pc[r] = "done" /\ Len(decoded[r]) > 0
    /\ \E r \in Reqs : pc[r] = "idle"

\* request r holds no lock and has no stream submitted to an engine
HoldsNothing(r) ==
    /\ \A l \in Locks : r \notin mu[l]
    /\ \A e \in Engines : r \notin inflight[e]

\* C28: with fair scheduling, fair locks and external calls that return,
\* every invocation of transcribeFile that has started eventually returns a
\* response, and when it has returned it holds none of the locks it
\* acquired.
C28_EveryRequestReturns ==
    /\ \A r \in Reqs :
          (pc[r] = "normalize") ~> (pc[r] = "done" /\ resp[r].done /\ HoldsNothing(r))
    /\ [](\A r \in Reqs : pc[r] = "done" => HoldsNothing(r))

\* C28 witness: two requests of one language have both returned after each
\* held the VAD lock and the engine's lock.
C28_Witness ==
    /\ req[1].lang = req[2].lang
    /\ \A r \in {1, 2} :
          /\ pc[r] = "done"
          /\ locked[r] = {"VAD", OwnEngine(req[r].lang)}
          /\ HoldsNothing(r)

\* request r is in flight with a temporary file of its own making
HasTemp(r) == pc[r] \notin {"idle", "done"} /\ cleanup[r] # NoPath

\* C29 as stated: the temporary file of a request in flight is its own: no
\* other request in flight uses the same path, and the file at that path is
\* the one the request's own conversion wrote, not overwritten or removed
\* by another request.
C29_TempFilesPrivate ==
    \A r \in Reqs :
        HasTemp(r) =>
            /\ \A q \in Reqs \ {r} : HasTemp(q) => cleanup[q] # cleanup[r]
            /\ writer[cleanup[r]] = r
            /\ disk[cleanup[r]] = "converted"

\* loadWav has returned
WavLoaded == wavResult # NotLoaded

\* the header fields of the file, read little-endian
BitsOf(f) == f.bits[1] + 256 * f.bits[2]
ChannelsOf(f) == f.chan[1] + 256 * f.chan[2]

\* a result without samples and without a sample rate
NoSamples(res) == res.samples = <<>> /\ res.rate = 0

\* C21: loadWav accepts only 16-bit mono and 16-bit stereo: a readable file
\* with any other depth / channel combination gets an unsupported-format
\* error and no samples; a file shorter than the 44-byte header gets a
\* read-header error and no samples; and only a 16-bit mono or stereo file
\* is ever loaded without error.
C21_SupportedFormats ==
    WavLoaded =>
        LET f == wavFile
            supported == BitsOf(f) = 16 /\ ChannelsOf(f) \in {1, 2}
        IN  /\ (f.open /\ f.hlen < HeaderLen) =>
                  (wavResult.err = "read header" /\ NoSamples(wavResult))
            /\ (f.open /\ f.hlen = HeaderLen /\ f.readOk /\ ~supported) =>
                  (wavResult.err = "unsupported WAV" /\ NoSamples(wavResult))
            /\ (f.open /\ f.hlen = HeaderLen /\ f.readOk /\ supported) =>
                  wavResult.err = ""
            /\ wavResult.err = "" => supported
            /\ wavResult.err # "" => NoSamples(wavResult)

\* C21 witness: an 8-bit mono file with a payload was refused.
C21_Witness ==
    /\ WavLoaded
    /\ wavFile.bits = <<8, 0>> /\ wavFile.chan = <<1, 0>>
    /\ wavFile.data # <<>>
    /\ wavResult.err = "unsupported WAV"

\* loadWav has returned samples of a 16-bit file with ch channels
LoadedAs(ch) ==
    WavLoaded /\ wavResult.err = "" /\ BitsOf(wavFile) = 16 /\ ChannelsOf(wavFile) = ch

\* re-encoding: a sample times 32768, as a signed 16-bit integer, low byte
\* first
EncodeSample(q) ==
    LET u == ((q[1] * FullScale) \div q[2]) % 65536
    IN  <<u % 256, u \div 256>>

RECURSIVE EncodeMono(_)
EncodeMono(samples) ==
    IF samples = <<>> THEN <<>>
    ELSE EncodeSample(Head(samples)) \o EncodeMono(Tail(samples))

\* the bytes of a payload that make whole units of size bytes
Whole(d, size) == SubSeq(d, 1, size * (Len(d) \div size))

\* the signed 16-bit integer whose low byte is lo and high byte hi
Signed(lo, hi) == IF hi >= 128 THEN lo + 256 * hi - 65536 ELSE lo + 256 * hi

\* a stereo payload with the left and the right sample of every frame
\* exchanged
RECURSIVE SwapChannels(_)
SwapChannels(d) ==
    IF Len(d) < 4 THEN d
    ELSE <<d[3], d[4], d[1], d[2]>> \o SwapChannels(SubSeq(d, 5, Len(d)))

\* C22: for a 16-bit mono payload, decoding and then re-encoding (times
\* 32768, little-endian signed 16-bit) gives back every original sample,
\* exactly and in order. For a stereo payload every output sample is (left +
\* right) / 2 / 32768 of its frame; the payload with the channels exchanged
\* decodes to the same samples, so the downmix cannot be inverted.
C22_RoundTrip ==
    /\ LoadedAs(1) =>
          /\ Len(wavResult.samples) = Len(wavFile.data) \div 2
          /\ EncodeMono(wavResult.samples) = Whole(wavFile.data, 2)
    /\ LoadedAs(2) =>
          LET d == wavFile.data
          IN  /\ Len(wavResult.samples) = Len(d) \div 4
              /\ \A i \in 1..Len(wavResult.samples) :
                    LET l == Signed(d[4 * i - 3], d[4 * i - 2])
                        r == Signed(d[4 * i - 1], d[4 * i])
                    IN  /\ wavResult.samples[i] = <<l + r, 2 * FullScale>>
                        /\ l # r => SwapChannels(d) # d
              /\ loadWav([wavFile EXCEPT !.data = SwapChannels(d)]) = wavResult

\* C22 witness: a mono payload of the samples 32767 and -32768 and one odd
\* byte was decoded.
C22_Witness ==
    /\ LoadedAs(1)
    /\ wavFile.data = <<255, 127, 0, 128, 1>>
    /\ Len(wavResult.samples) = 2

\* C30: every sample loadWav returns lies in [-1, 32767/32768], so in
\* [-1.0, 1.0]: a mono sample is a signed 16-bit value over 32768, a stereo
\* sample the sum of two over 65536.
C30_SampleRange ==
    WavLoaded =>
        \A i \in 1..Len(wavResult.samples) :
            LET q == wavResult.samples[i]
            IN  /\ q[2] \in {FullScale, 2 * FullScale}
                /\ -q[2] <= q[1]
                /\ q[1] * FullScale <= (FullScale - 1) * q[2]

\* C30 witness: a stereo frame of two samples -32768 was decoded to -1.
C30_Witness ==
    /\ LoadedAs(2)
    /\ wavFile.data = <<0, 128, 0, 128>>
    /\ wavResult.samples = <<<<-65536, 65536>>>>

\* the least number of windows of windowSize samples that hold n samples
CeilWindows(n) == (n + windowSize - 1) \div windowSize

\* C31: inside the VAD critical section the engine is driven in the order
\* feed, flush, drain, reset. Before the feed nothing is fed; after it the
\* engine has accepted ceil(n/512) whole windows and no partial one (none
\* for n = 0, the last one padded when 512 does not divide n) and nothing
\* is drained yet; the drain starts on a flushed engine (no open segment)
\* and ends only on an empty one; the reset comes after the drain and
\* leaves a clean engine while the request still holds the lock.
C31_VadCallOrder ==
    \A r \in Reqs :
        LET n == req[r].audio.n
            k == CeilWindows(n)
        IN  /\ pc[r] \in VadSection => r \in mu["VAD"]
            /\ pc[r] = "vad_feed" => vad.fed = 0 /\ drained[r] = <<>>
            /\ pc[r] \in {"vad_flush", "vad_drain", "vad_reset"} =>
                  /\ vad.fed = k
                  /\ vad.partial = 0
                  /\ k * windowSize >= n
                  /\ k * windowSize - n < windowSize
                  /\ (n = 0) = (k = 0)
            /\ pc[r] = "vad_flush" => drained[r] = <<>>
            /\ pc[r] \in {"vad_drain", "vad_reset"} => vad.open = NoSeg
            /\ pc[r] = "vad_reset" => vad.queue = <<>>
            /\ pc[r] = "vad_unlock" => vad = VadClean

\* C31 witness: a buffer whose length 512 does not divide was fed with its
\* padded last window, flushed and drained of a segment, and is about to be
\* reset.
C31_Witness ==
    \E r \in Reqs :
        /\ pc[r] = "vad_reset"
        /\ req[r].audio.n % windowSize # 0
        /\ vad.fed * windowSize > req[r].audio.n
        /\ drained[r] # <<>>

\* the errors transcribeFile returns with the client-error status 400
ClientErrors == {"load wav", "unsupported sample rate", "audio too long"}

\* C32: the status of every response is one of 200, 400, 422 and 503, and
\* it tells the conditions apart: 422 exactly for a failed external decode,
\* 400 exactly for a WAV decode failure, a wrong sample rate or audio over
\* the ceiling, 503 exactly for a ru request without the RU engine, and 200
\* for every other outcome (no error at all).
C32_StatusByOutcome ==
    \A r \in Reqs :
        pc[r] = "done" =>
            LET a == req[r].audio
                st == resp[r].Status
                err == resp[r].Error
            IN  /\ st \in {200, 400, 422, 503}
                /\ (st = 422) = (err = "ffmpeg")
                /\ (st = 400) = (err \in ClientErrors)
                /\ (st = 503) = (err = "RU model not loaded")
                /\ (st = 200) = (err = "")
                /\ err = "ffmpeg" => ToLower(a.ext) # ".wav" /\ ~a.ffmpegOk
                /\ err = "load wav" => ~a.wavOk
                /\ err = "unsupported sample rate" => a.rate # 16000
                /\ err = "audio too long" =>
                      a.n > cfg.MaxAudioDurationS * 16000
                /\ err = "RU model not loaded" =>
                      req[r].lang = "ru" /\ ~recognizerRU
                /\ (PassesAudioGates(a) /\ ~(req[r].lang = "ru" /\ ~recognizerRU))
                      => st = 200

\* C32 witness: on a server without the RU engine a ru request was answered
\* 503; its audio would have been transcribed in any other language.
C32_Witness ==
    \E r \in Reqs :
        /\ pc[r] = "done"
        /\ resp[r].Status = 503
        /\ PassesAudioGates(req[r].audio)
        /\ req[r].audio.n > 0

\* the RU model is absent or failed to load, and the EN model loaded
OnlyEnglish ==
    /\ loadEN = "done" /\ recognizerEN
    /\ loadRU \in {"absent", "done"} /\ ~recognizerRU

\* the EN model failed to load
EnglishFailed == loadEN = "done" /\ ~recognizerEN

\* the startup part of C33: a missing RU model never ends the process (a
\* process that died in model loading has a failed EN load), requests in
\* any other language are served as if nothing were missing (never the
\* EngineUnavailable error, status 200 whenever the audio passes the
\* gates), and after a failed EN load the process is dead and no request
\* was ever started.
RuOptionalEnRequired ==
    /\ mainpc = <<"fatal", "load">> => EnglishFailed
    /\ OnlyEnglish =>
          \A r \in Reqs :
              (pc[r] = "done" /\ req[r].lang # "ru") =>
                  /\ resp[r].Error # "RU model not loaded"
                  /\ PassesAudioGates(req[r].audio) => resp[r].Status = 200
    /\ EnglishFailed =>
          /\ mainpc = <<"fatal", "load">>
          /\ \A r \in Reqs : pc[r] = "idle" /\ ~resp[r].done

\* C33 as stated: with the RU model missing the service starts and serves
\* English normally, and every ru request is answered EngineUnavailable; a
\* failed EN load ends the process before any request.
C33_Original ==
    /\ RuOptionalEnRequired
    /\ OnlyEnglish =>
          \A r \in Reqs :
              (pc[r] = "done" /\ req[r].lang = "ru") =>
                  resp[r].Error = "RU model not loaded"

\* C33 amended: as stated, except that a ru request is answered
\* EngineUnavailable exactly when its audio passes the gates that come
\* before the engine check, is answered with an error in every case, and is
\* never given to an engine.
C33_RuOptional ==
    /\ RuOptionalEnRequired
    /\ OnlyEnglish =>
          \A r \in Reqs :
              (pc[r] # "idle" /\ req[r].lang = "ru") =>
                  /\ decoded[r] = <<>>
                  /\ pc[r] = "done" =>
                        /\ resp[r].Error # ""
                        /\ (resp[r].Error = "RU model not loaded")
                              = PassesAudioGates(req[r].audio)

\* C33 witness: the RU load failed, the server serves, and a request in
\* another language was transcribed to a text by the EN engine.
C33_Witness ==
    \E r \in Reqs :
        /\ loadRU = "done" /\ ~recognizerRU
        /\ Serving
        /\ req[r].lang # "ru"
        /\ pc[r] = "done"
        /\ resp[r].Status = 200
        /\ resp[r].Text # <<>>
        /\ decoded[r] # <<>>

\* the samples of a sequence of chunks
RECURSIVE Samples(_)
Samples(cs) == IF cs = <<>> THEN 0 ELSE Head(cs).len + Samples(Tail(cs))

\* C34: applyVADChunked loses, duplicates and reorders nothing. While it
\* drains, the closed chunks followed by the chunk being built are the
\* segments popped so far, in emission order; the chunks it returns are
\* all the drained segments in emission order, every chunk holds exactly
\* the samples of its segments, the chunks together hold as many samples
\* as the drained segments, and no returned chunk is empty.
C34_ChunksAreTheSegments ==
    \A r \in Reqs :
        /\ pc[r] = "vad_drain" =>
              Flatten(chunks[r]) \o current[r].segs = drained[r]
        /\ VadReturned(r) =>
              /\ Flatten(chunks[r]) = drained[r]
              /\ Samples(chunks[r]) = SumLen(drained[r])
              /\ \A i \in 1..Len(chunks[r]) :
                    /\ chunks[r][i].len > 0
                    /\ chunks[r][i].len = SumLen(chunks[r][i].segs)

\* C34 witness: applyVADChunked returned two chunks of different lengths
\* for two segments that did not fit in one chunk.
C34_Witness ==
    \E r \in Reqs :
        /\ pc[r] = "vad_done"
        /\ Len(chunks[r]) = 2
        /\ Len(drained[r]) = 2
        /\ chunks[r][1].len # chunks[r][2].len

\* the locks request r holds
Held(r) == {l \in Locks : r \in mu[l]}

\* the positions of recognizeChunk at which the engine's lock is held
RecSection == {"rec_accept", "rec_decode", "rec_result", "rec_unlock"}

\* the lock request r is asking for, which somebody holds
WaitsFor(r) ==
    IF pc[r] = "vad_lock" /\ mu["VAD"] # {} THEN {"VAD"}
    ELSE IF pc[r] = "rec_lock" /\ mu[RecLockOf(req[r].lang)] # {}
    THEN {RecLockOf(req[r].lang)}
    ELSE {}

\* C35: a request holds at most one lock at a time, and each lock exactly
\* during its stage: muVAD from the first window to the return of
\* applyVADChunked, the engine's lock from the submission of a chunk to its
\* result. The first engine lock is asked for only after muVAD is released
\* with all chunks built, and between chunks the request holds nothing.
\* Hence a lock a request waits for is held by a request that waits for no
\* lock and can take a step: no state has every request waiting.
C35_OneLockAtATime ==
    \A r \in Reqs :
        /\ Cardinality(Held(r)) <= 1
        /\ ("VAD" \in Held(r)) = (pc[r] \in VadSection)
        /\ (Held(r) \cap Engines # {}) = (pc[r] \in RecSection)
        /\ pc[r] \in RecSection => Held(r) = {RecLockOf(req[r].lang)}
        /\ pc[r] \in (RecSection \cup {"rec_lock", "filter"}) =>
              /\ chunks[r] # <<>>
              /\ ci[r] \in 1..Len(chunks[r])
              /\ useVAD[r] => Flatten(chunks[r]) = drained[r]
        /\ pc[r] \in {"vad_lock", "rec_lock", "filter", "done"} => Held(r) = {}
        /\ \A l \in WaitsFor(r) :
              \E q \in Reqs \ {r} :
                  /\ l \in Held(q)
                  /\ WaitsFor(q) = {}
                  /\ pc[q] \notin {"vad_lock", "rec_lock"}
                  /\ ENABLED Steps(q)

\* C35 witness: a request that released the engine's lock after its first
\* chunk waits for it again for its second chunk, while the other request
\* of that language holds it.
C35_Witness ==
    \E r, q \in Reqs :
        /\ r # q
        /\ pc[r] = "rec_lock"
        /\ ci[r] = 2
        /\ WaitsFor(r) # {}
        /\ WaitsFor(r) \subseteq Held(q)
        /\ "VAD" \in locked[r]

\* the gates of transcribeFile in the order of the claim, and the first of
\* them request r fails (6: none)
FirstFailing(r) ==
    LET a == req[r].audio
    IN  IF ToLower(a.ext) # ".wav" /\ ~a.ffmpegOk THEN 1
        ELSE IF ~a.wavOk THEN 2
        ELSE IF a.rate # 16000 THEN 3
        ELSE IF a.n > cfg.MaxAudioDurationS * 16000 THEN 4
        ELSE IF req[r].lang = "ru" /\ ~recognizerRU THEN 5
        ELSE 6

\* what each gate answers when it fails
GateAnswer(g) ==
    CASE g = 1 -> <<"ffmpeg", 422>>
      [] g = 2 -> <<"load wav", 400>>
      [] g = 3 -> <<"unsupported sample rate", 400>>
      [] g = 4 -> <<"audio too long", 400>>
      [] g = 5 -> <<"RU model not loaded", 503>>
      [] g = 6 -> <<"", 200>>

\* the gates a request at position at has passed
GatesPassed(at) ==
    CASE at \in {"idle", "normalize", "done"} -> 0
      [] at = "loadwav" -> 1
      [] at = "validate" -> 2
      [] OTHER -> 5

\* C36: the gates are evaluated in the order normalize, decode WAV, sample
\* rate, duration ceiling, RU engine, segmentation, recognition, and the
\* first failing gate alone determines the response: a request is past a
\* gate only if it fails none up to it, its response is that of the first
\* gate it fails whatever later gates would say, segmentation starts only
\* after all five gates, recognition only after segmentation has returned,
\* and a request that fails a gate has touched neither the VAD engine nor
\* a recognition engine.
C36_FirstFailingGate ==
    \A r \in Reqs :
        /\ FirstFailing(r) > GatesPassed(pc[r])
        /\ pc[r] = "done" =>
              <<resp[r].Error, resp[r].Status>> = GateAnswer(FirstFailing(r))
        /\ (pc[r] # "idle" /\ FirstFailing(r) < 6) =>
              /\ locked[r] = {}
              /\ ~useVAD[r]
              /\ drained[r] = <<>>
              /\ decoded[r] = <<>>
              /\ \A e \in Engines : r \notin inflight[e]
        /\ (pc[r] # "idle" /\ FirstFailing(r) = 1) => cleanup[r] = NoPath
        /\ (locked[r] \cap Engines # {} /\ useVAD[r]) =>
              /\ "VAD" \in locked[r]
              /\ pc[r] \notin VadSection
              /\ r \notin mu["VAD"]

\* C36 witness: a too-long ru request on a server without the RU engine was
\* answered AudioTooLong.
C36_Witness ==
    \E r \in Reqs :
        /\ req[r].lang = "ru"
        /\ ~recognizerRU
        /\ req[r].audio.n > cfg.MaxAudioDurationS * 16000
        /\ pc[r] = "done"
        /\ resp[r].Error = "audio too long"

\* C37: in every response of transcribeFile error and success exclude each
\* other: a response with an error has no text, speech duration 0 and a
\* status other than 200, and a response with status 200 has no error.
C37_ErrorXorSuccess ==
    \A r \in Reqs :
        resp[r].done =>
            /\ resp[r].Error # "" =>
                  /\ resp[r].Text = <<>>
                  /\ resp[r].SpeechMs = 0
                  /\ resp[r].Status # 200
            /\ resp[r].Status = 200 => resp[r].Error = ""

\* C37 witness: audio of the right rate and length that segmentation would
\* have been applied to was answered with an error and nothing else.
C37_Witness ==
    \E r \in Reqs :
        /\ resp[r].done
        /\ resp[r].Error # ""
        /\ vadDetector
        /\ UseVAD(req[r].override, req[r].audio.n)
        /\ req[r].audio.rate = 16000
        /\ req[r].audio.n \in 1..(cfg.MaxAudioDurationS * 16000)

\* C38 as stated: no decode call and no VAD call is in flight on an engine
\* that has been released: an engine is deleted only when no request is
\* between acquiring and releasing its lock or inside one of its calls.
C38_NoCallOnReleasedEngine ==
    \A r \in Reqs :
        /\ Inside(r) \cap released = {}
        /\ Held(r) \cap released = {}

\* segmentation gave request r at least one chunk, every chunk was decoded,
\* and no chunk's text was kept: each was empty after trimming or scored
\* over 2.4
AllChunksDropped(r) ==
    /\ useVAD[r]
    /\ chunks[r] # <<>>
    /\ Len(heard[r]) = Len(chunks[r])
    /\ \A i \in 1..Len(heard[r]) :
          heard[r][i].t.len = 0 \/ Over24(heard[r][i].ratio)

\* C39: when segmentation produced at least one chunk and every chunk's
\* text is empty or suppressed by the filter, the request still succeeds:
\* status 200, empty text, no error, and a speech duration that counts the
\* samples of all chunks (16 samples to the millisecond), the dropped ones
\* included.
C39_AllSuppressedSucceeds ==
    \A r \in Reqs :
        (pc[r] = "done" /\ AllChunksDropped(r)) =>
            /\ resp[r].Status = 200
            /\ resp[r].Error = ""
            /\ resp[r].Text = <<>>
            /\ resp[r].SpeechMs > 0
            /\ resp[r].SpeechMs * 16 = SumLen(drained[r])
            /\ Len(decoded[r]) = Len(chunks[r])

\* C39 witness: a request with two chunks, one decoded to nothing and one
\* to a decoder loop, has returned.
C39_Witness ==
    \E r \in Reqs :
        /\ pc[r] = "done"
        /\ AllChunksDropped(r)
        /\ Len(chunks[r]) = 2
        /\ \E i, j \in 1..2 :
              /\ heard[r][i].t.len = 0
              /\ Over24(heard[r][j].ratio)

\* C40: in every environment loadConfig returns a thread count of at least
\* 1, a VAD minimum of at least 0 and a ceiling greater than 0; a value
\* that does not parse or is out of range (threads <= 0, VAD minimum < 0,
\* ceiling <= 0) is ignored and the default (4, 10, 300) is returned for
\* it; any other value of a variable is the one returned.
C40_ConfigInRange ==
    loaded.done =>
        LET c == loaded.cfg
            t == Atoi(environ["MOONSHINE_THREADS"])
            v == ParseFloat(environ["VAD_MIN_DURATION_S"])
            m == ParseFloat(environ["MAX_AUDIO_DURATION_S"])
        IN  /\ ~c.NumThreads.neg /\ StripZeros(c.NumThreads.digits) # <<>>
            /\ c.VADMinDurationS.kind # "nan"
            /\ ~c.VADMinDurationS.neg \/ c.VADMinDurationS.digits = <<>>
            /\ c.MaxAudioDurationS.kind # "nan"
            /\ ~c.MaxAudioDurationS.neg
            /\ c.MaxAudioDurationS.kind = "fin" => c.MaxAudioDurationS.digits # <<>>
            /\ (t.err # "" \/ t.n.neg \/ t.n.digits = <<>>) =>
                  c.NumThreads = [neg |-> FALSE, digits |-> <<"4">>]
            /\ (v.err # "" \/ (v.f.neg /\ (v.f.kind = "inf" \/ v.f.digits # <<>>))) =>
                  c.VADMinDurationS = Float("fin", FALSE, <<"1", "0">>, 0)
            /\ (m.err # "" \/ m.f.neg \/ (m.f.kind = "fin" /\ m.f.digits = <<>>)) =>
                  c.MaxAudioDurationS = Float("fin", FALSE, <<"3", "0", "0">>, 0)
            /\ c.NumThreads \in {t.n, [neg |-> FALSE, digits |-> <<"4">>]}
            /\ c.VADMinDurationS \in {v.f, Float("fin", FALSE, <<"1", "0">>, 0)}
            /\ c.MaxAudioDurationS \in {m.f, Float("fin", FALSE, <<"3", "0", "0">>, 0)}

\* C40 witness: loadConfig has returned the defaults for a thread count of
\* 0, a negative VAD minimum and a ceiling that is not a number.
C40_Witness ==
    /\ loaded.done
    /\ environ["MOONSHINE_THREADS"] = <<"0">>
    /\ environ["VAD_MIN_DURATION_S"] = <<"-", "1", ".", "5">>
    /\ environ["MAX_AUDIO_DURATION_S"] = <<"N", "a", "N">>
    /\ loaded.cfg.NumThreads.digits = <<"4">>

====
